---- MODULE Spec2Model ----
(***************************************************************************)
(* Model of the "Capture All" browser extension: the background service    *)
(* worker (src/background.js), the content script (src/unnamed/part_000)   *)
(* and the export aggregation.                                             *)
(*                                                                         *)
(* Three specifications share the variables:                               *)
(*   Spec            the orchestrator: debugger attach/detach, the request *)
(*                   correlator, clear-all and export;                     *)
(*   SpecInteraction the logInteraction message handlers, which read,      *)
(*                   extend and write back the persisted interaction log;  *)
(*   SpecMerge       the merge of the three logs done by the exporters.    *)
(***************************************************************************)
EXTENDS Integers, Sequences, FiniteSets, TLC

(***************************************************************************)
(* Bounds of the model.                                                    *)
(***************************************************************************)
MaxLogs == 2        \* longest network log explored
MaxEvents == 4      \* debugger events delivered in one behaviour
MaxClock == 1       \* Date.now() ranges over 0..MaxClock
MaxPending == 1     \* handleNetworkResponse calls suspended at once
MaxMessages == 3    \* logInteraction messages in one behaviour
MaxList == 2        \* longest source list given to the merge
MaxTs == 1          \* timestamps given to the merge range over 0..MaxTs
MaxVideo == 2       \* video.duration, in seconds, is at most this
MaxPerformance == 3 \* performance.now() ranges over 0..MaxPerformance
MaxPlayTs == 3      \* timestamps given to the players range over 0..MaxPlayTs
ScrubSteps == 2     \* a scrubber is clicked at 0/ScrubSteps .. ScrubSteps/ScrubSteps
MaxPageClock == 300 \* Date.now() of the page is at most this
PageTickStep == 50  \* the page's clock is read every PageTickStep ms
MaxEmitted == 3     \* logInteraction messages of a content script
MaxHelperStarts == 2 \* startRecording calls of the offscreen script
MaxChunks == 2      \* chunks in recordedChunks
MaxCommands == 2    \* start-video and stop-video commands in one behaviour
MaxExports == 1     \* exportAllLogs calls in one behaviour

Tabs == {1}
RequestIds == {"x", "y"}
Urls == {"https://a/api"}
MimeTypes == {"application/json", "image/png"}

\* A field that JavaScript leaves undefined, and a scalar or array stored in
\* a field that may be undefined.
Undefined == [undefined |-> TRUE]
Some(v) == [value |-> v]
NaN == [nan |-> TRUE]
Null == [null |-> TRUE]

VARIABLES
    \* --- background.js, module state ---
    isRecording,        \* let isRecording
    networkLogs,        \* let networkLogs
    attachedTabs,       \* let attachedTabs
    \* --- the browser ---
    dbgAttached,        \* tabs chrome.debugger is attached to
    closedTabs,         \* tabs that were closed
    now,                \* the value Date.now() returns
    storedInteractionLogs, \* chrome.storage.local 'interactionLogs'
    \* --- suspended async functions ---
    startPc,            \* per tab: startRecording's position
    stopPc,             \* per tab: stopRecording's position
    respTasks,          \* handleNetworkResponse calls awaiting the body
    handlers,           \* logInteraction handlers of the message listener
    \* --- outputs ---
    unhandled,          \* a rejection of handleNetworkResponse nobody caught
    \* --- history ---
    respSeen,           \* per log entry: a response event with its id was
                        \* delivered to the correlator after it was created
    dupTerminal,        \* a loadingFinished/loadingFailed event arrived for
                        \* an entry that already had that sub-record
    nEvents,            \* debugger events delivered so far
    \* --- the merge ---
    mergePc, captureData, allEvents, startTime, endTime, duration, tracks,
    \* --- the exported page ---
    videoDuration,      \* video.duration of the page's video element
    currentTime,        \* the player's clock
    progress,           \* the playback position, in percent
    \* --- background.js, video coordinator ---
    currentRecordingTabId,  \* let currentRecordingTabId
    videoStartTime,         \* let videoStartTime
    videoCalls,             \* the startVideoCapture / stopVideoCapture calls
    \* --- the browser and the offscreen document ---
    storedIsVideoRecording, \* chrome.storage.local 'isVideoRecording'
    offscreenDocument,      \* an offscreen document exists
    mediaRecorder,          \* the offscreen document's active MediaRecorder
    videoStored,            \* IndexedDB: the record stored under 'current-video'
    \* --- the logs-only page's player ---
    isPlaying,              \* let isPlaying
    playbackSpeed,          \* let playbackSpeed
    lastFrameTime,          \* let lastFrameTime
    performanceNow,         \* the value performance.now() returns
    currentEventIndex,      \* let currentEventIndex
    currentEventCard,       \* the event the 'Current Event' card shows
    detailsPanel,           \* the event the details panel shows
    lastScrub,              \* history: the last click on a page's scrubber
    \* --- the video page ---
    activeItems,            \* the list items that carry the class 'active'
    \* --- exportAllLogs ---
    exportCalls,            \* the exportAllLogs calls
    storedElementSnapshots, \* chrome.storage.local 'elementSnapshots'
    \* --- the content script ---
    isRecordingInteractions, \* let isRecordingInteractions
    lastScrollTime,         \* let lastScrollTime
    isContextValid,         \* let isContextValid
    listening,              \* the handlers are registered on the document
    \* --- the page and the extension around it ---
    pageNow,                \* the value Date.now() returns in the page
    contextAlive,           \* the extension context of the page is valid
    pendingReplies,         \* sendMessage callbacks not yet called
    \* --- history of the content script ---
    emitted,                \* the logInteraction messages sent, with their time
    detectedBy,             \* how the loss of the worker was last noticed
    lastScrollEvent,        \* the last scroll event handled
    csThrown,               \* a handler threw an error
    \* --- the offscreen script (part_001, 1400-1842) ---
    offscreenRecorder,      \* let mediaRecorder of the offscreen script
    mediaStream,            \* let mediaStream
    recordedChunks,         \* let recordedChunks: the recorder of each chunk
    recorders,              \* the MediaRecorder objects created so far
    liveStreams,            \* the media streams whose tracks are live
    helperStarts,           \* the startRecording calls of the script
    helperStop,             \* the stopRecording call of the script
    \* --- history of the offscreen script ---
    videoMessages,          \* the 'video-data-ready' messages sent
    foreignStops            \* tracks stopped by another recorder's handler

netVars == <<isRecording, networkLogs, attachedTabs, dbgAttached, closedTabs,
             startPc, stopPc, respTasks, unhandled, respSeen, dupTerminal,
             nEvents>>
intVars == <<handlers>>
mergeVars == <<mergePc, captureData, allEvents, startTime, endTime, duration,
               tracks, videoDuration, currentTime, progress>>
vidVars == <<currentRecordingTabId, videoStartTime, videoCalls,
             storedIsVideoRecording, offscreenDocument, mediaRecorder,
             videoStored>>
playVars == <<isPlaying, playbackSpeed, lastFrameTime, performanceNow,
              currentEventIndex, currentEventCard, detailsPanel, activeItems,
              lastScrub>>
expVars == <<exportCalls, storedElementSnapshots>>
csVars == <<isRecordingInteractions, lastScrollTime, isContextValid, listening,
            pageNow, contextAlive, pendingReplies, emitted, detectedBy,
            lastScrollEvent, csThrown>>
helperVars == <<offscreenRecorder, mediaStream, recordedChunks, recorders,
                liveStreams, helperStarts, helperStop, videoMessages,
                foreignStops>>
docVars == <<csVars, helperVars>>
vars == <<netVars, now, storedInteractionLogs, intVars, mergeVars, vidVars,
          playVars, expVars, docVars>>

(***************************************************************************)
(* Helpers                                                                 *)
(***************************************************************************)
Indices(s) == 1..Len(s)
RemoveAt(s, k) == SubSeq(s, 1, k - 1) \o SubSeq(s, k + 1, Len(s))
Last(s) == s[Len(s)]

\* String.prototype.includes on the MIME types of the model.
MimeIncludes(mime, word) ==
    <<mime, word>> \in {<<"application/json", "json">>}

\* background.js 687-691: the body is fetched for these MIME types only.
IsTextLike(mime) ==
    \/ MimeIncludes(mime, "json")
    \/ MimeIncludes(mime, "javascript")
    \/ MimeIncludes(mime, "text")
    \/ MimeIncludes(mime, "xml")

(***************************************************************************)
(* Parameters of the protocol events                                       *)
(***************************************************************************)
RequestParams == [requestId : RequestIds, url : Urls]
ResponseParams ==
    {[requestId |-> r, status |-> e[1], mimeType |-> e[2]] :
        r \in RequestIds,
        e \in {<<200, "application/json">>, <<404, "image/png">>}}
FinishedParams == [requestId : RequestIds, encodedDataLength : {100, 200}]
FailedParams ==
    {[requestId |-> r, errorText |-> e[1], canceled |-> e[2]] :
        r \in RequestIds,
        e \in {<<"net::ERR_FAILED", FALSE>>, <<"net::ERR_ABORTED", TRUE>>}}
\* Results of Network.getResponseBody; an empty body is falsy.
ResponseBodies == {[body |-> "", length |-> 0], [body |-> "{}", length |-> 2]}

(***************************************************************************)
(* The request correlator (background.js 656-760), as functions of the log *)
(***************************************************************************)
\* handleNetworkRequest: the entry pushed for a 'request sent' event.  The
\* method, headers and postData are copied from the event like the url and
\* are carried by it here.
NewLogEntry(params, tabId, ts) ==
    [type |-> "request", timestamp |-> ts, requestId |-> params.requestId,
     url |-> params.url, tabId |-> tabId, response |-> Undefined,
     loadingFinished |-> Undefined, loadingFailed |-> Undefined]

\* Variant: a reused id replaces the entry it finds instead of adding one.
HandleNetworkRequestOverwrite(logs, params, tabId, ts) ==
    LET hits == {i \in Indices(logs) : logs[i].requestId = params.requestId}
    IN  IF hits = {} THEN Append(logs, NewLogEntry(params, tabId, ts))
        ELSE [logs EXCEPT ![CHOOSE i \in hits : TRUE] =
                              NewLogEntry(params, tabId, ts)]

HandleNetworkRequest(logs, params, tabId, ts) ==
    Append(logs, NewLogEntry(params, tabId, ts))

\* Variant: the predicate asks for type 'response', which no entry has.
FindIndexWrongType(logs, id) ==
    LET hits == {i \in Indices(logs) :
                    logs[i].requestId = id /\ logs[i].type = "response"}
    IN  IF hits = {} THEN 0 ELSE CHOOSE i \in hits : \A j \in hits : i <= j

\* networkLogs.findIndex(log => log.requestId === id && log.type === 'request')
\* the first match, 0 standing for JavaScript's -1.
FindIndex(logs, id) ==
    LET hits == {i \in Indices(logs) :
                    logs[i].requestId = id /\ logs[i].type = "request"}
    IN  IF hits = {} THEN 0 ELSE CHOOSE i \in hits : \A j \in hits : i <= j

\* handleNetworkResponse, lines 673-684: a fresh response object, no body.
NewResponse(params, ts) ==
    [status |-> params.status, mimeType |-> params.mimeType,
     timestamp |-> ts, body |-> Undefined, bodySize |-> Undefined]

SetResponse(logs, params, ts) ==
    LET requestIndex == FindIndex(logs, params.requestId)
    IN  IF requestIndex # 0
        THEN [logs EXCEPT ![requestIndex].response = NewResponse(params, ts)]
        ELSE logs

\* Variant: a terminal record that is already there is kept.
HandleNetworkLoadingFinishedKeepFirst(logs, params, ts) ==
    LET hits == {i \in Indices(logs) : logs[i].requestId = params.requestId}
    IN  IF hits = {} THEN logs
        ELSE LET requestIndex == CHOOSE i \in hits : \A j \in hits : i <= j
             IN  IF logs[requestIndex].loadingFinished # Undefined THEN logs
                 ELSE [logs EXCEPT ![requestIndex].loadingFinished =
                        [timestamp |-> ts,
                         encodedDataLength |-> params.encodedDataLength]]

HandleNetworkLoadingFinished(logs, params, ts) ==
    LET requestIndex == FindIndex(logs, params.requestId)
    IN  IF requestIndex # 0
        THEN [logs EXCEPT ![requestIndex].loadingFinished =
                [timestamp |-> ts,
                 encodedDataLength |-> params.encodedDataLength]]
        ELSE logs

HandleNetworkLoadingFailed(logs, params, ts) ==
    LET requestIndex == FindIndex(logs, params.requestId)
    IN  IF requestIndex # 0
        THEN [logs EXCEPT ![requestIndex].loadingFailed =
                [timestamp |-> ts, errorText |-> params.errorText,
                 canceled |-> params.canceled]]
        ELSE logs

\* History: which entries have seen a response event with their id.
MarkResponseSeen(seen, logs, id) ==
    [i \in DOMAIN seen |->
        seen[i] \/ (i <= Len(logs) /\ logs[i].requestId = id)]

(***************************************************************************)
(* Initial state: the service worker has just been loaded.                 *)
(***************************************************************************)
InitNet ==
    /\ isRecording = FALSE
    /\ networkLogs = <<>>
    /\ attachedTabs = {}
    /\ dbgAttached = {}
    /\ closedTabs = {}
    /\ startPc = [t \in Tabs |-> "idle"]
    /\ stopPc = [t \in Tabs |-> "idle"]
    /\ respTasks = <<>>
    /\ unhandled = FALSE
    /\ respSeen = <<>>
    /\ dupTerminal = FALSE
    /\ nEvents = 0

InitInteraction ==
    /\ handlers = <<>>

InitMerge ==
    /\ mergePc = "idle"
    /\ captureData = Undefined
    /\ allEvents = <<>>
    /\ startTime = 0
    /\ endTime = 0
    /\ duration = 0
    /\ tracks = <<>>
    /\ videoDuration = 0
    /\ currentTime = 0
    /\ progress = Some(0)

\* Lines 18-19; no offscreen document, nothing stored.
InitVideo ==
    /\ currentRecordingTabId = Null
    /\ videoStartTime = Null
    /\ videoCalls = <<>>
    /\ storedIsVideoRecording = FALSE
    /\ offscreenDocument = FALSE
    /\ mediaRecorder = Null
    /\ videoStored = Null

\* The logs-only page as it loads (lines 1433-1442), and the video page
\* with no list item highlighted.
InitPlayer ==
    /\ isPlaying = FALSE
    /\ playbackSpeed = 1
    /\ lastFrameTime = Null
    /\ performanceNow = 0
    /\ currentEventIndex = -1
    /\ currentEventCard = Null
    /\ detailsPanel = Null
    /\ activeItems = {}
    /\ lastScrub = Null

\* No exportAllLogs call yet; no snapshot stored.
\* part_000, line 5.
SCROLL_THROTTLE == 100

\* part_000, lines 3-6; Date.now() of a page is beyond SCROLL_THROTTLE.
InitContent ==
    /\ isRecordingInteractions = FALSE
    /\ lastScrollTime = 0
    /\ isContextValid = TRUE
    /\ listening = FALSE
    /\ pageNow = SCROLL_THROTTLE
    /\ contextAlive = TRUE
    /\ pendingReplies = 0
    /\ emitted = <<>>
    /\ detectedBy = Null
    /\ lastScrollEvent = Null
    /\ csThrown = FALSE

\* The offscreen script as loaded (part_001, lines 1393-1399).
InitHelper ==
    /\ offscreenRecorder = Null
    /\ mediaStream = Null
    /\ recordedChunks = <<>>
    /\ recorders = <<>>
    /\ liveStreams = {}
    /\ helperStarts = <<>>
    /\ helperStop = [pc |-> "idle", timeout |-> FALSE, interval |-> FALSE,
                     ticked |-> FALSE]
    /\ videoMessages = <<>>
    /\ foreignStops = {}

\* The documents beside the service worker.
InitDocuments ==
    /\ InitContent
    /\ InitHelper

InitExportCalls ==
    /\ exportCalls = <<>>
    /\ storedElementSnapshots = Undefined

Init ==
    /\ InitNet
    /\ now = 0
    /\ storedInteractionLogs = Undefined
    /\ InitInteraction
    /\ InitMerge
    /\ InitVideo
    /\ InitPlayer
    /\ InitExportCalls
    /\ InitDocuments

\* Date.now() advances between any two steps.
Tick ==
    /\ now < MaxClock
    /\ now' = now + 1
    /\ UNCHANGED <<netVars, storedInteractionLogs, intVars, mergeVars, vidVars, playVars, expVars, docVars>>

(***************************************************************************)
(* Recording life cycle (background.js 36-48, 616-635, 762-778, 2544-2548) *)
(***************************************************************************)
\* startRecording up to its first await: chrome.debugger.attach succeeds.
\* (An attach that is refused throws before anything is assigned.)
StartRecordingAttach(t) ==
    /\ startPc[t] = "idle"
    /\ t \notin closedTabs
    /\ t \notin dbgAttached
    /\ dbgAttached' = dbgAttached \cup {t}
    /\ startPc' = [startPc EXCEPT ![t] = "enabling"]
    /\ UNCHANGED <<isRecording, networkLogs, attachedTabs, closedTabs, stopPc,
                   respTasks, unhandled, respSeen, dupTerminal, nEvents,
                   now, storedInteractionLogs, intVars, mergeVars, vidVars, playVars, expVars, docVars>>

\* networkLogs = [] (lines 628 and 2538) makes a new array: the exportData
\* of an export in progress (line 875) keeps the array that was there.
DetachLogs(calls, logs) ==
    [e \in DOMAIN calls |->
        IF calls[e].json # Null /\ calls[e].heldLogs = Null
        THEN [calls[e] EXCEPT !.heldLogs = Some(logs)]
        ELSE calls[e]]

\* startRecording after Network.enable and Runtime.enable were answered:
\* lines 626-628, or the throw when the debugger is gone meanwhile.
StartRecordingEnabled(t) ==
    /\ startPc[t] = "enabling"
    /\ startPc' = [startPc EXCEPT ![t] = "idle"]
    /\ IF t \in dbgAttached
       THEN /\ attachedTabs' = attachedTabs \cup {t}
            /\ isRecording' = TRUE
            /\ networkLogs' = <<>>
            /\ respSeen' = <<>>
            /\ exportCalls' = DetachLogs(exportCalls, networkLogs)
       ELSE UNCHANGED <<attachedTabs, isRecording, networkLogs, respSeen,
                        exportCalls>>
    /\ UNCHANGED <<dbgAttached, closedTabs, stopPc, respTasks, unhandled,
                   dupTerminal, nEvents, now, storedInteractionLogs,
                   intVars, mergeVars, vidVars, playVars,
                   storedElementSnapshots, docVars>>

\* stopRecording up to its await (line 766-767), or to its end when the tab
\* is not attached (line 772).  One call per tab is in flight at a time.
StopRecordingBegin(t) ==
    /\ stopPc[t] = "idle"
    /\ IF t \in attachedTabs
       THEN /\ stopPc' = [stopPc EXCEPT ![t] = "detaching"]
            /\ UNCHANGED isRecording
       ELSE /\ isRecording' = FALSE
            /\ UNCHANGED stopPc
    /\ UNCHANGED <<networkLogs, attachedTabs, dbgAttached, closedTabs, startPc,
                   respTasks, unhandled, respSeen, dupTerminal, nEvents,
                   now, storedInteractionLogs, intVars, mergeVars, vidVars, playVars, expVars, docVars>>

\* Variant: stopping also empties the network log.
StopRecordingDetachedClearing(t) ==
    /\ stopPc[t] = "detaching"
    /\ stopPc' = [stopPc EXCEPT ![t] = "idle"]
    /\ attachedTabs' = attachedTabs \ {t}
    /\ networkLogs' = <<>>
    /\ respSeen' = <<>>
    /\ IF t \in dbgAttached
       THEN /\ dbgAttached' = dbgAttached \ {t}
            /\ isRecording' = FALSE
       ELSE UNCHANGED <<dbgAttached, isRecording>>
    /\ UNCHANGED <<closedTabs, startPc, respTasks, unhandled, dupTerminal,
                   nEvents, now, storedInteractionLogs, intVars, mergeVars, vidVars, playVars, expVars, docVars>>

\* stopRecording after chrome.debugger.detach settled: lines 768-772 when it
\* resolved, the catch of lines 774-777 when it rejected.
StopRecordingDetached(t) ==
    /\ stopPc[t] = "detaching"
    /\ stopPc' = [stopPc EXCEPT ![t] = "idle"]
    /\ attachedTabs' = attachedTabs \ {t}
    /\ IF t \in dbgAttached
       THEN /\ dbgAttached' = dbgAttached \ {t}
            /\ isRecording' = FALSE
       ELSE UNCHANGED <<dbgAttached, isRecording>>
    /\ UNCHANGED <<networkLogs, closedTabs, startPc, respTasks, unhandled,
                   respSeen, dupTerminal, nEvents, now,
                   storedInteractionLogs, intVars, mergeVars, vidVars, playVars, expVars, docVars>>

\* chrome.debugger.onDetach listener (lines 38-44): the browser ended the
\* debugging session of an open tab.
OnDetach(t) ==
    /\ t \in dbgAttached
    /\ dbgAttached' = dbgAttached \ {t}
    /\ IF t \in attachedTabs
       THEN /\ attachedTabs' = attachedTabs \ {t}
            /\ isRecording' = FALSE
       ELSE UNCHANGED <<attachedTabs, isRecording>>
    /\ UNCHANGED <<networkLogs, closedTabs, startPc, stopPc, respTasks,
                   unhandled, respSeen, dupTerminal, nEvents, now,
                   storedInteractionLogs, intVars, mergeVars, vidVars, playVars, expVars, docVars>>

\* The tab is closed: the browser detaches the debugger (onDetach listener)
\* and reports the removal (chrome.tabs.onRemoved listener, lines 2544-2548,
\* which starts stopRecording when the tab is still in attachedTabs); the two
\* listeners run in either order.
TabRemoved(t) ==
    /\ t \notin closedTabs
    /\ closedTabs' = closedTabs \cup {t}
    /\ dbgAttached' = dbgAttached \ {t}
    /\ \E removedFirst \in BOOLEAN :
        /\ IF t \in dbgAttached /\ t \in attachedTabs
           THEN /\ attachedTabs' = attachedTabs \ {t}
                /\ isRecording' = FALSE
           ELSE UNCHANGED <<attachedTabs, isRecording>>
        /\ IF removedFirst /\ t \in attachedTabs /\ stopPc[t] = "idle"
           THEN stopPc' = [stopPc EXCEPT ![t] = "detaching"]
           ELSE UNCHANGED stopPc
    /\ UNCHANGED <<networkLogs, startPc, respTasks, unhandled,
                   respSeen, dupTerminal, nEvents, now, storedInteractionLogs, intVars,
                   mergeVars, vidVars, playVars, expVars, docVars>>

\* clearAllLogs (lines 2537-2542); the removal from the store is issued at
\* once.
ClearAllLogs ==
    /\ networkLogs' = <<>>
    /\ respSeen' = <<>>
    /\ storedInteractionLogs' = Undefined
    /\ storedElementSnapshots' = Undefined
    /\ exportCalls' = DetachLogs(exportCalls, networkLogs)
    /\ UNCHANGED <<isRecording, attachedTabs, dbgAttached, closedTabs, startPc,
                   stopPc, respTasks, unhandled, dupTerminal, nEvents, now,
                   intVars, mergeVars, vidVars, playVars, docVars>>

\* exportAllLogs (lines 793-930) reads networkLogs and the stores and hands
\* documents to the download command; it assigns no state of the worker.
ExportAllLogs ==
    /\ UNCHANGED <<netVars, now, storedInteractionLogs, intVars, mergeVars, vidVars, playVars, expVars, docVars>>

(***************************************************************************)
(* Debugger events (background.js 637-760).  The browser sends events for  *)
(* tabs it has a debugging session with; onDebuggerEvent drops those of    *)
(* tabs that are not in attachedTabs (line 638).                           *)
(***************************************************************************)
EventArrives(t) ==
    /\ t \in dbgAttached
    /\ nEvents < MaxEvents
    /\ nEvents' = nEvents + 1

\* 'Network.requestWillBeSent' -> handleNetworkRequest
RequestWillBeSent(t, params) ==
    /\ EventArrives(t)
    /\ Len(networkLogs) < MaxLogs
    /\ IF t \in attachedTabs
       THEN /\ networkLogs' = HandleNetworkRequest(networkLogs, params, t, now)
            /\ respSeen' = Append(respSeen, FALSE)
       ELSE UNCHANGED <<networkLogs, respSeen>>
    /\ UNCHANGED <<isRecording, attachedTabs, dbgAttached, closedTabs, startPc,
                   stopPc, respTasks, unhandled, dupTerminal, now,
                   storedInteractionLogs, intVars, mergeVars, vidVars, playVars, expVars, docVars>>

\* 'Network.responseReceived' -> handleNetworkResponse up to its await
\* (lines 673-698), or to its end when no body is fetched.
ResponseReceived(t, params) ==
    /\ EventArrives(t)
    /\ IF t \in attachedTabs
       THEN /\ networkLogs' = SetResponse(networkLogs, params, now)
            /\ respSeen' = MarkResponseSeen(respSeen, networkLogs,
                                            params.requestId)
            /\ IF /\ FindIndex(networkLogs, params.requestId) # 0
                  /\ IsTextLike(params.mimeType)
               THEN /\ Len(respTasks) < MaxPending
                    /\ respTasks' = Append(respTasks,
                          [requestIndex |->
                              FindIndex(networkLogs, params.requestId),
                           params |-> params, tabId |-> t])
               ELSE UNCHANGED respTasks
       ELSE UNCHANGED <<networkLogs, respSeen, respTasks>>
    /\ UNCHANGED <<isRecording, attachedTabs, dbgAttached, closedTabs, startPc,
                   stopPc, unhandled, dupTerminal, now,
                   storedInteractionLogs, intVars, mergeVars, vidVars, playVars, expVars, docVars>>

\* 'Network.loadingFinished' -> handleNetworkLoadingFinished
LoadingFinished(t, params) ==
    /\ EventArrives(t)
    /\ IF t \in attachedTabs
       THEN /\ networkLogs' =
                HandleNetworkLoadingFinished(networkLogs, params, now)
            /\ dupTerminal' =
                (\/ dupTerminal
                 \/ \E i \in Indices(networkLogs) :
                      /\ networkLogs[i].requestId = params.requestId
                      /\ networkLogs[i].loadingFinished # Undefined)
       ELSE UNCHANGED <<networkLogs, dupTerminal>>
    /\ UNCHANGED <<isRecording, attachedTabs, dbgAttached, closedTabs, startPc,
                   stopPc, respTasks, unhandled, respSeen, now,
                   storedInteractionLogs, intVars, mergeVars, vidVars, playVars, expVars, docVars>>

\* 'Network.loadingFailed' -> handleNetworkLoadingFailed
LoadingFailed(t, params) ==
    /\ EventArrives(t)
    /\ IF t \in attachedTabs
       THEN /\ networkLogs' =
                HandleNetworkLoadingFailed(networkLogs, params, now)
            /\ dupTerminal' =
                (\/ dupTerminal
                 \/ \E i \in Indices(networkLogs) :
                      /\ networkLogs[i].requestId = params.requestId
                      /\ networkLogs[i].loadingFailed # Undefined)
       ELSE UNCHANGED <<networkLogs, dupTerminal>>
    /\ UNCHANGED <<isRecording, attachedTabs, dbgAttached, closedTabs, startPc,
                   stopPc, respTasks, unhandled, respSeen, now,
                   storedInteractionLogs, intVars, mergeVars, vidVars, playVars, expVars, docVars>>

(***************************************************************************)
(* handleNetworkResponse after its await (lines 700-729).  The function    *)
(* resumes with the requestIndex it computed before the await and indexes  *)
(* whatever networkLogs is by then.                                        *)
(***************************************************************************)
\* networkLogs[requestIndex] is undefined: reading .url or .response of it
\* throws a TypeError.
EntryMissing(logs, task) == task.requestIndex > Len(logs)

\* Lines 700-723: the body is stored when there is one.  Writing .body of an
\* undefined response throws inside the try block.
StoreBody(logs, task, responseBody) ==
    IF responseBody.body = "" \/ EntryMissing(logs, task)
       \/ logs[task.requestIndex].response = Undefined
    THEN logs
    ELSE [logs EXCEPT ![task.requestIndex].response.body =
                          Some(responseBody.body),
                      ![task.requestIndex].response.bodySize =
                          Some(responseBody.length)]

\* Network.getResponseBody resolved.  With the entry gone, line 721 throws,
\* the catch block throws again on line 725 (and line 729 would for an empty
\* body): the promise of handleNetworkResponse rejects and nobody handles it.
BodyFetchResolved(k, responseBody) ==
    /\ k \in Indices(respTasks)
    /\ respTasks' = RemoveAt(respTasks, k)
    /\ networkLogs' = StoreBody(networkLogs, respTasks[k], responseBody)
    /\ unhandled' = (unhandled \/ EntryMissing(networkLogs, respTasks[k]))
    /\ UNCHANGED <<isRecording, attachedTabs, dbgAttached, closedTabs, startPc,
                   stopPc, respSeen, dupTerminal, nEvents, now,
                   storedInteractionLogs, intVars, mergeVars, vidVars, playVars, expVars, docVars>>

\* Network.getResponseBody rejected: the catch block (lines 724-726) and then
\* line 729 read networkLogs[requestIndex].url.
BodyFetchRejected(k) ==
    /\ k \in Indices(respTasks)
    /\ respTasks' = RemoveAt(respTasks, k)
    /\ unhandled' = (unhandled \/ EntryMissing(networkLogs, respTasks[k]))
    /\ UNCHANGED <<isRecording, networkLogs, attachedTabs, dbgAttached,
                   closedTabs, startPc, stopPc, respSeen, dupTerminal,
                   nEvents, now, storedInteractionLogs, intVars, mergeVars, vidVars, playVars, expVars, docVars>>

Next ==
    \/ Tick
    \/ \E t \in Tabs : StartRecordingAttach(t)
    \/ \E t \in Tabs : StartRecordingEnabled(t)
    \/ \E t \in Tabs : StopRecordingBegin(t)
    \/ \E t \in Tabs : StopRecordingDetached(t)
    \/ \E t \in Tabs : OnDetach(t)
    \/ \E t \in Tabs : TabRemoved(t)
    \/ ClearAllLogs
    \/ ExportAllLogs
    \/ \E t \in Tabs, params \in RequestParams : RequestWillBeSent(t, params)
    \/ \E t \in Tabs, params \in ResponseParams : ResponseReceived(t, params)
    \/ \E t \in Tabs, params \in FinishedParams : LoadingFinished(t, params)
    \/ \E t \in Tabs, params \in FailedParams : LoadingFailed(t, params)
    \/ \E k \in 1..MaxPending, responseBody \in ResponseBodies :
          BodyFetchResolved(k, responseBody)
    \/ \E k \in 1..MaxPending : BodyFetchRejected(k)

Spec == Init /\ [][Next]_vars

\* The life cycle over two tabs: the recording may be started for one tab
\* while another is attached, and stopped for either.
TabPair == {1, 2}

InitTabPair ==
    /\ isRecording = FALSE
    /\ networkLogs = <<>>
    /\ attachedTabs = {}
    /\ dbgAttached = {}
    /\ closedTabs = {}
    /\ startPc = [t \in TabPair |-> "idle"]
    /\ stopPc = [t \in TabPair |-> "idle"]
    /\ respTasks = <<>>
    /\ unhandled = FALSE
    /\ respSeen = <<>>
    /\ dupTerminal = FALSE
    /\ nEvents = 0
    /\ now = 0
    /\ storedInteractionLogs = Undefined
    /\ InitInteraction
    /\ InitMerge
    /\ InitVideo
    /\ InitPlayer
    /\ InitExportCalls
    /\ InitDocuments

NextTabPair ==
    \/ \E t \in TabPair : StartRecordingAttach(t)
    \/ \E t \in TabPair : StartRecordingEnabled(t)
    \/ \E t \in TabPair : StopRecordingBegin(t)
    \/ \E t \in TabPair : StopRecordingDetached(t)
    \/ \E t \in TabPair : OnDetach(t)
    \/ \E t \in TabPair : TabRemoved(t)
    \/ \E t \in TabPair, params \in RequestParams :
          RequestWillBeSent(t, params)

SpecTabPair == InitTabPair /\ [][NextTabPair]_vars

(***************************************************************************)
(* Interaction log (background.js 592-608, content script 345-371).  Each  *)
(* logInteraction message starts an async function in the worker that      *)
(* reads the whole persisted log, pushes one entry and writes the whole    *)
(* log back; the functions of several messages interleave at their awaits. *)
(***************************************************************************)
InteractionTypes == {"click", "scroll"}

\* result.interactionLogs || []
StoredOrEmpty(stored) == IF stored = Undefined THEN <<>> ELSE stored.value

\* Content script logInteraction with a valid context: the message is sent;
\* the worker's listener calls chrome.storage.local.get and suspends.
LogInteraction(data) ==
    /\ Len(handlers) < MaxMessages
    /\ handlers' = Append(handlers,
          [pc |-> "get", data |-> data, logs |-> <<>>, reply |-> Undefined])
    /\ UNCHANGED <<netVars, now, storedInteractionLogs, mergeVars, vidVars, playVars, expVars, docVars>>

\* Lines 596-600: the log as read, with the new entry pushed.
PushInteraction(stored, data, ts) ==
    Append(StoredOrEmpty(stored), [type |-> data, timestamp |-> ts])

\* The get resolved: lines 596-601 run up to the await of the set.
StorageGetResolved(h) ==
    /\ h \in Indices(handlers)
    /\ handlers[h].pc = "get"
    /\ handlers' = [handlers EXCEPT
          ![h].pc = "set",
          ![h].logs = PushInteraction(storedInteractionLogs,
                                      handlers[h].data, now)]
    /\ UNCHANGED <<netVars, now, storedInteractionLogs, mergeVars, vidVars, playVars, expVars, docVars>>

\* The set wrote the value it was given and resolved: line 602.
StorageSetResolved(h) ==
    /\ h \in Indices(handlers)
    /\ handlers[h].pc = "set"
    /\ storedInteractionLogs' = Some(handlers[h].logs)
    /\ handlers' = [handlers EXCEPT ![h].pc = "done",
                                    ![h].reply = [success |-> TRUE]]
    /\ UNCHANGED <<netVars, now, mergeVars, vidVars, playVars, expVars, docVars>>

\* The get or the set rejected: the catch of lines 603-606.
StorageRejected(h) ==
    /\ h \in Indices(handlers)
    /\ handlers[h].pc \in {"get", "set"}
    /\ handlers' = [handlers EXCEPT ![h].pc = "done",
                                    ![h].reply = [success |-> FALSE]]
    /\ UNCHANGED <<netVars, now, storedInteractionLogs, mergeVars, vidVars, playVars, expVars, docVars>>

NextInteraction ==
    \/ Tick
    \/ \E data \in InteractionTypes : LogInteraction(data)
    \/ \E h \in 1..MaxMessages : StorageGetResolved(h)
    \/ \E h \in 1..MaxMessages : StorageSetResolved(h)
    \/ \E h \in 1..MaxMessages : StorageRejected(h)

SpecInteraction == Init /\ [][NextInteraction]_vars

(***************************************************************************)
(* The content script (part_000)                                           *)
(***************************************************************************)
csOther == <<netVars, now, storedInteractionLogs, intVars, mergeVars, vidVars,
             playVars, expVars, helperVars>>

\* Variant: the script only notes that the context is lost.
StopInteractionRecordingNoted ==
    UNCHANGED <<isRecordingInteractions, listening>>

\* stopInteractionRecording, lines 72-84.
StopInteractionRecording ==
    /\ isRecordingInteractions' = FALSE
    /\ listening' = FALSE

\* The message 'startInteractionRecording' of the worker (lines 44-46) and
\* startInteractionRecording (lines 57-70); checkContext (lines 9-18) holds,
\* the worker has just sent a message.
StartInteractionMessage ==
    /\ contextAlive
    /\ isRecordingInteractions' = TRUE
    /\ isContextValid' = TRUE
    /\ listening' = TRUE
    /\ detectedBy' = Null
    /\ UNCHANGED <<csOther, lastScrollTime, pageNow, contextAlive,
                   pendingReplies, emitted, lastScrollEvent, csThrown>>

\* The message 'stopInteractionRecording' (lines 47-49).
StopInteractionMessage ==
    /\ contextAlive
    /\ StopInteractionRecording
    /\ UNCHANGED <<csOther, lastScrollTime, isContextValid, pageNow,
                   contextAlive, pendingReplies, emitted, detectedBy,
                   lastScrollEvent, csThrown>>

\* The extension is reloaded, updated or removed: chrome.runtime.id of the
\* page is undefined from now on and sendMessage throws.
ContextInvalidated ==
    /\ contextAlive
    /\ contextAlive' = FALSE
    /\ UNCHANGED <<csOther, isRecordingInteractions, lastScrollTime,
                   isContextValid, listening, pageNow, pendingReplies,
                   emitted, detectedBy, lastScrollEvent, csThrown>>

\* Date.now() of the page goes on.
PageTick ==
    /\ pageNow + PageTickStep <= MaxPageClock
    /\ pageNow' = pageNow + PageTickStep
    /\ UNCHANGED <<csOther, isRecordingInteractions, lastScrollTime,
                   isContextValid, listening, contextAlive, pendingReplies,
                   emitted, detectedBy, lastScrollEvent, csThrown>>

\* Lines 354 and 366: chrome.runtime.sendMessage is called inside a try.
SendInsideTry == TRUE

\* logInteraction (lines 345-371).  With a valid context the message is sent
\* and its callback is outstanding.  Without one, either checkContext says so
\* (lines 347-352) or sendMessage throws and the catch runs (lines 366-370):
\* both stop the recording.
\* An error thrown by sendMessage leaves the handler when the call is not
\* inside a try; the catch of lines 366-370 stops the recording.
LogInteractionSent(data) ==
    IF contextAlive
    THEN /\ emitted' = Append(emitted, [type |-> data, at |-> pageNow])
         /\ pendingReplies' = pendingReplies + 1
         /\ UNCHANGED <<isRecordingInteractions, listening, isContextValid,
                        detectedBy, csThrown>>
    ELSE \E by \in {"probe", "throw"} :
            /\ UNCHANGED <<emitted, pendingReplies>>
            /\ IF by = "throw" /\ ~SendInsideTry
               THEN /\ csThrown' = TRUE
                    /\ UNCHANGED <<isRecordingInteractions, listening,
                                   isContextValid, detectedBy>>
               ELSE /\ detectedBy' = Some(by)
                    /\ StopInteractionRecording
                    /\ isContextValid' = FALSE
                    /\ UNCHANGED csThrown

\* handleClick (lines 86-106), called for a click on the page.
HandleClick ==
    /\ listening
    /\ isRecordingInteractions
    /\ Len(emitted) < MaxEmitted
    /\ LogInteractionSent("click")
    /\ UNCHANGED <<csOther, lastScrollTime, pageNow, contextAlive,
                   lastScrollEvent>>

\* Variant: an event at the throttle's distance is dropped as well.
ThrottledUpTo(time, last) == time - last <= SCROLL_THROTTLE

\* Line 112.
Throttled(time, last) == time - last < SCROLL_THROTTLE

\* The time of the last scroll message sent, Null when there is none.
LastScrollSent ==
    LET sent == {i \in Indices(emitted) : emitted[i].type = "scroll"}
    IN  IF sent = {} THEN Null
        ELSE Some(emitted[CHOOSE i \in sent : \A j \in sent : j <= i].at)

\* handleScroll (lines 108-125), called for a scroll event of the page.
\* lastScrollEvent keeps what the handler met and whether it sent a message.
HandleScroll ==
    /\ listening
    /\ isRecordingInteractions
    /\ Len(emitted) < MaxEmitted
    /\ IF Throttled(pageNow, lastScrollTime)
       THEN /\ lastScrollEvent' =
                 [at |-> pageNow, before |-> LastScrollSent,
                  alive |-> contextAlive, sent |-> FALSE]
            /\ UNCHANGED <<isRecordingInteractions, lastScrollTime,
                           isContextValid, listening, pendingReplies,
                           emitted, detectedBy, csThrown>>
       ELSE /\ lastScrollTime' = pageNow
            /\ LogInteractionSent("scroll")
            /\ lastScrollEvent' =
                 [at |-> pageNow, before |-> LastScrollSent,
                  alive |-> contextAlive, sent |-> contextAlive]
    /\ UNCHANGED <<csOther, pageNow, contextAlive>>

\* The callback of sendMessage (lines 358-365) is called, with or without
\* chrome.runtime.lastError: the worker answered, or the port was closed
\* before it did.
ReplyArrives ==
    /\ pendingReplies > 0
    /\ pendingReplies' = pendingReplies - 1
    /\ \E lastError \in BOOLEAN :
         /\ ~contextAlive => lastError
         /\ IF lastError
            THEN /\ isContextValid' = FALSE
                 /\ StopInteractionRecording
                 /\ detectedBy' = Some("reply")
            ELSE UNCHANGED <<isContextValid, isRecordingInteractions,
                             listening, detectedBy>>
    /\ UNCHANGED <<csOther, lastScrollTime, pageNow, contextAlive, emitted,
                   lastScrollEvent, csThrown>>

NextContent ==
    \/ StartInteractionMessage
    \/ StopInteractionMessage
    \/ ContextInvalidated
    \/ PageTick
    \/ HandleClick
    \/ HandleScroll
    \/ ReplyArrives

SpecContent == Init /\ [][NextContent]_vars

(***************************************************************************)
(* The offscreen script (part_001, 1391-1842)                              *)
(***************************************************************************)
helperOther == <<netVars, now, storedInteractionLogs, intVars, mergeVars,
                 vidVars, playVars, expVars, csVars>>

\* new MediaRecorder(mediaStream, recorderOptions), line 1585, with the
\* handlers of lines 1603-1714.  pc is the place of its onstop handler, blob
\* the chunks the handler has put together; wrapped tells that stopRecording
\* has put its own handler around onstop (lines 1791-1812).
NewRecorder(stream) ==
    [stream |-> stream, state |-> "inactive", stopQueued |-> FALSE,
     wrapped |-> FALSE, pc |-> "none", blob |-> <<>>]

\* mediaRecorder.stop() of a recorder that is not inactive: it is inactive
\* at once, and the browser queues the task that fires dataavailable and
\* stop.
StopRecorder(rs, r) ==
    [rs EXCEPT ![r].state = "inactive", ![r].stopQueued = TRUE]

\* if (mediaRecorder && mediaRecorder.state !== 'inactive') mediaRecorder.stop()
\* of lines 1454-1461 and 1753-1759.
StopActiveRecorder ==
    IF offscreenRecorder # Null
       /\ recorders[offscreenRecorder.value].state # "inactive"
    THEN StopRecorder(recorders, offscreenRecorder.value)
    ELSE recorders

\* if (mediaStream) { ...track.stop()...; mediaStream = null } of lines
\* 1463-1470, 1693-1699 and 1748-1751: the streams live afterwards.
StopTracks ==
    IF mediaStream # Null THEN liveStreams \ {mediaStream.value}
    ELSE liveStreams

\* startRecording up to the await of getUserMedia (lines 1449-1496).
StartRecordingCalled ==
    /\ Len(helperStarts) < MaxHelperStarts
    /\ recorders' = StopActiveRecorder
    /\ liveStreams' = StopTracks
    /\ mediaStream' = Null
    /\ recordedChunks' = <<>>
    /\ helperStarts' =
          Append(helperStarts, [pc |-> "getUserMedia", result |-> "pending"])
    /\ UNCHANGED <<helperOther, offscreenRecorder, helperStop, videoMessages,
                   foreignStops>>

\* The catch of lines 1744-1762, and the answer {success: false}.
StartRecordingFailed(c) ==
    /\ liveStreams' = StopTracks
    /\ mediaStream' = Null
    /\ recorders' = StopActiveRecorder
    /\ helperStarts' =
          [helperStarts EXCEPT ![c] = [pc |-> "done", result |-> "error"]]

\* getUserMedia settles (lines 1496-1599).  With a stream, which is the
\* stream number c, the recorder is created and the wait of line 1721
\* begins; without one the catch of line 1539 throws on.
GetUserMediaSettled(c) ==
    /\ c \in Indices(helperStarts)
    /\ helperStarts[c].pc = "getUserMedia"
    /\ \E granted \in BOOLEAN :
         IF granted
         THEN /\ mediaStream' = Some(c)
              /\ liveStreams' = liveStreams \cup {c}
              /\ recorders' = Append(recorders, NewRecorder(c))
              /\ offscreenRecorder' = Some(Len(recorders) + 1)
              /\ recordedChunks' = <<>>
              /\ helperStarts' = [helperStarts EXCEPT ![c].pc = "wait"]
         ELSE /\ StartRecordingFailed(c)
              /\ UNCHANGED <<offscreenRecorder, recordedChunks>>
    /\ UNCHANGED <<helperOther, helperStop, videoMessages, foreignStops>>

\* The wait of line 1721 is over (lines 1724-1743).  mediaStream is null
\* when somebody has let go of it: line 1724 throws.  A recorder that is
\* recording already throws on start (line 1731), and the catch of line
\* 1734 stops the tracks.  Else the recorder starts.
StartWaitElapsed(c) ==
    /\ c \in Indices(helperStarts)
    /\ helperStarts[c].pc = "wait"
    /\ IF mediaStream # Null
          /\ recorders[offscreenRecorder.value].state = "inactive"
       THEN /\ recorders' =
                 [recorders EXCEPT ![offscreenRecorder.value].state =
                                       "recording"]
            /\ helperStarts' =
                 [helperStarts EXCEPT ![c] =
                     [pc |-> "done", result |-> "success"]]
            /\ UNCHANGED <<mediaStream, liveStreams>>
       ELSE StartRecordingFailed(c)
    /\ UNCHANGED <<helperOther, offscreenRecorder, recordedChunks, helperStop,
                   videoMessages, foreignStops>>

\* The stop event of some recorder is queued and its handler has not begun.
StopEventQueued ==
    \E r \in Indices(recorders) :
        recorders[r].stopQueued /\ recorders[r].pc = "none"

\* ondataavailable of recorder r (lines 1603-1610) after a timeslice of one
\* second, which is later than a stop event queued by now.
DataAvailable(r) ==
    /\ r \in Indices(recorders)
    /\ recorders[r].state = "recording"
    /\ ~StopEventQueued
    /\ Len(recordedChunks) < MaxChunks
    /\ recordedChunks' = Append(recordedChunks, r)
    /\ UNCHANGED <<helperOther, offscreenRecorder, mediaStream, recorders,
                   liveStreams, helperStarts, helperStop, videoMessages,
                   foreignStops>>

\* The task of a stopped recorder r: its last data, if it has any, goes to
\* ondataavailable, then onstop begins (lines 1613-1661): it throws without
\* chunks, else it makes the blob of all of recordedChunks and reads it.
OnStopFires(r) ==
    /\ r \in Indices(recorders)
    /\ recorders[r].stopQueued
    /\ recorders[r].pc = "none"
    /\ \E hasData \in BOOLEAN :
         /\ hasData => Len(recordedChunks) < MaxChunks
         /\ LET chunks == IF hasData THEN Append(recordedChunks, r)
                          ELSE recordedChunks
            IN  /\ recordedChunks' = chunks
                /\ recorders' =
                      [recorders EXCEPT
                          ![r].stopQueued = FALSE,
                          ![r].blob = chunks,
                          ![r].pc = IF chunks = <<>> THEN "notifying"
                                    ELSE "reading"]
    /\ UNCHANGED <<helperOther, offscreenRecorder, mediaStream, liveStreams,
                   helperStarts, helperStop, videoMessages, foreignStops>>

\* The FileReader of lines 1643-1661 ends: the video is sent to the worker
\* (lines 1667-1671), or the error is (lines 1679-1687).
HelperReaderSettled(r) ==
    /\ r \in Indices(recorders)
    /\ recorders[r].pc = "reading"
    /\ \E read \in BOOLEAN :
         IF read
         THEN /\ recorders' = [recorders EXCEPT ![r].pc = "sending"]
              /\ videoMessages' =
                    Append(videoMessages,
                           [by |-> r, chunks |-> recorders[r].blob])
         ELSE /\ recorders' = [recorders EXCEPT ![r].pc = "notifying"]
              /\ UNCHANGED videoMessages
    /\ UNCHANGED <<helperOther, offscreenRecorder, mediaStream,
                   recordedChunks, liveStreams, helperStarts, helperStop,
                   foreignStops>>

\* sendMessage of the handler of recorder r settles, and its finally runs
\* (lines 1691-1700): the tracks of mediaStream, whatever stream that is by
\* now, are stopped.  A handler wrapped by stopRecording then sets the timer
\* of line 1808.
HelperSendSettled(r) ==
    /\ r \in Indices(recorders)
    /\ recorders[r].pc \in {"sending", "notifying"}
    /\ recorders' = [recorders EXCEPT ![r].pc = "done"]
    /\ liveStreams' = StopTracks
    /\ mediaStream' = Null
    /\ foreignStops' =
          IF mediaStream # Null /\ mediaStream.value # recorders[r].stream
          THEN foreignStops \cup {[by |-> r, stream |-> mediaStream.value]}
          ELSE foreignStops
    /\ helperStop' =
          IF recorders[r].wrapped /\ helperStop.pc = "waiting"
          THEN [helperStop EXCEPT !.pc = "grace"]
          ELSE helperStop
    /\ UNCHANGED <<helperOther, offscreenRecorder, recordedChunks,
                   helperStarts, videoMessages>>

\* stopRecording (lines 1774-1839): without an active recorder the promise
\* resolves at once; else onstop is wrapped, the timeout of line 1815 is
\* set, the recorder is stopped and the interval of line 1827 is set.
StopRecordingCalled ==
    /\ helperStop.pc = "idle"
    /\ IF offscreenRecorder = Null
          \/ recorders[offscreenRecorder.value].state = "inactive"
       THEN /\ helperStop' = [helperStop EXCEPT !.pc = "settled"]
            /\ UNCHANGED recorders
       ELSE /\ recorders' =
                 [StopRecorder(recorders, offscreenRecorder.value)
                     EXCEPT ![offscreenRecorder.value].wrapped = TRUE]
            /\ helperStop' = [pc |-> "waiting", timeout |-> TRUE,
                              interval |-> TRUE, ticked |-> FALSE]
    /\ UNCHANGED <<helperOther, offscreenRecorder, mediaStream,
                   recordedChunks, liveStreams, helperStarts, videoMessages,
                   foreignStops>>

\* The callback of the interval (lines 1827-1832): when the recorder is
\* inactive, the interval and the timeout are cleared.
IntervalCheck(stop, inactive) ==
    [stop EXCEPT !.ticked = TRUE,
                 !.interval = IF inactive THEN FALSE ELSE @,
                 !.timeout = IF inactive THEN FALSE ELSE @]

\* The interval of 100 ms ticks.
IntervalTick ==
    /\ helperStop.interval
    /\ helperStop' =
          IntervalCheck(helperStop,
                        recorders[offscreenRecorder.value].state = "inactive")
    /\ UNCHANGED <<helperOther, offscreenRecorder, mediaStream,
                   recordedChunks, recorders, liveStreams, helperStarts,
                   videoMessages, foreignStops>>

\* The timeout of 15 s (lines 1815-1818) fires, later than the first tick
\* of the interval: the promise resolves.
TimeoutFires ==
    /\ helperStop.timeout
    /\ helperStop.ticked
    /\ helperStop' = [helperStop EXCEPT !.pc = "settled", !.timeout = FALSE]
    /\ UNCHANGED <<helperOther, offscreenRecorder, mediaStream,
                   recordedChunks, recorders, liveStreams, helperStarts,
                   videoMessages, foreignStops>>

\* The timer of line 1808 fires: the promise resolves.
GraceElapsed ==
    /\ helperStop.pc = "grace"
    /\ helperStop' = [helperStop EXCEPT !.pc = "settled"]
    /\ UNCHANGED <<helperOther, offscreenRecorder, mediaStream,
                   recordedChunks, recorders, liveStreams, helperStarts,
                   videoMessages, foreignStops>>

NextHelper ==
    \/ StartRecordingCalled
    \/ \E c \in 1..MaxHelperStarts : GetUserMediaSettled(c)
    \/ \E c \in 1..MaxHelperStarts : StartWaitElapsed(c)
    \/ \E r \in 1..MaxHelperStarts : DataAvailable(r)
    \/ \E r \in 1..MaxHelperStarts : OnStopFires(r)
    \/ \E r \in 1..MaxHelperStarts : HelperReaderSettled(r)
    \/ \E r \in 1..MaxHelperStarts : HelperSendSettled(r)
    \/ StopRecordingCalled
    \/ IntervalTick
    \/ TimeoutFires
    \/ GraceElapsed

SpecHelper == Init /\ [][NextHelper]_vars

\* The timers fire, the browser delivers the stop event and the FileReader
\* ends; whether the worker answers the message of the handler is up to the
\* worker.
SpecHelperLive ==
    /\ SpecHelper
    /\ WF_vars(IntervalTick)
    /\ WF_vars(TimeoutFires)
    /\ WF_vars(GraceElapsed)
    /\ \A r \in 1..MaxHelperStarts :
          WF_vars(OnStopFires(r)) /\ WF_vars(HelperReaderSettled(r))

(***************************************************************************)
(* The merge of the three logs for the timeline (background.js 932-974,    *)
(* 1803-1858, 1907-1932, 2463-2534)                                        *)
(***************************************************************************)
\* Lines 934-967 and 1908-1926: each record of a log, tagged with its kind.
TagEvents(logs, kind) ==
    [i \in Indices(logs) |->
        [type |-> kind, timestamp |-> logs[i].timestamp, data |-> logs[i]]]

CollectEvents(data) ==
    TagEvents(data.networkLogs, "network")
        \o TagEvents(data.interactionLogs, "interaction")
        \o TagEvents(data.elementSnapshots, "snapshot")

\* Variant: an event is put before the events of the same timestamp.
InsertBeforeEqual(sorted, e) ==
    LET before == {i \in Indices(sorted) : sorted[i].timestamp < e.timestamp}
        n == Cardinality(before)
    IN  SubSeq(sorted, 1, n) \o <<e>> \o SubSeq(sorted, n + 1, Len(sorted))

\* One step of the stable sort: e goes behind every event that does not
\* compare greater ((a, b) => a.timestamp - b.timestamp is <= 0).
InsertByTimestamp(sorted, e) ==
    LET before == {i \in Indices(sorted) : sorted[i].timestamp <= e.timestamp}
        n == Cardinality(before)
    IN  SubSeq(sorted, 1, n) \o <<e>> \o SubSeq(sorted, n + 1, Len(sorted))

\* allEvents.sort((a, b) => a.timestamp - b.timestamp), lines 970 and 1928:
\* Array.prototype.sort is stable.
RECURSIVE SortByTimestamp(_)
SortByTimestamp(events) ==
    IF events = <<>> THEN <<>>
    ELSE InsertByTimestamp(SortByTimestamp(SubSeq(events, 1, Len(events) - 1)),
                           Last(events))

\* Variant: the first and the last event are taken for each other.
StartTimeOfLast(events, clock) ==
    IF Len(events) > 0 THEN events[Len(events)].timestamp ELSE clock

\* Lines 972-974 and 1930-1932.
StartTimeOf(events, clock) ==
    IF Len(events) > 0 THEN events[1].timestamp ELSE clock

EndTimeOf(events, clock) ==
    IF Len(events) > 0 THEN events[Len(events)].timestamp ELSE clock

\* The time of a record on the timeline, log.timestamp - startTime, which
\* lines 1816, 1832, 1848, 2467, 2492 and 2521 then print in seconds.
RelativeTime(log, start) == log.timestamp - start

\* generateTimelineTracks (lines 1803-1858): one pill per record, with the
\* data-index it is given.
GenerateTimelineTracks(data, start) ==
    [i \in Indices(data.networkLogs) |->
        [type |-> "network", index |-> i - 1,
         relativeTime |-> RelativeTime(data.networkLogs[i], start)]]
    \o [i \in Indices(data.interactionLogs) |->
        [type |-> "interaction", index |-> Len(data.networkLogs) + i - 1,
         relativeTime |-> RelativeTime(data.interactionLogs[i], start)]]
    \o [i \in Indices(data.elementSnapshots) |->
        [type |-> "snapshot",
         index |-> Len(data.networkLogs) + Len(data.interactionLogs) + i - 1,
         relativeTime |-> RelativeTime(data.elementSnapshots[i], start)]]

\* generateNetworkList, generateInteractionsList, generateSnapshotsList
\* (lines 2463-2534): one list item per record.
GenerateLists(data, start) ==
    [i \in Indices(data.networkLogs) |->
        [type |-> "network",
         timestamp |-> data.networkLogs[i].timestamp,
         relativeTime |-> RelativeTime(data.networkLogs[i], start)]]
    \o [i \in Indices(data.interactionLogs) |->
        [type |-> "interaction",
         timestamp |-> data.interactionLogs[i].timestamp,
         relativeTime |-> RelativeTime(data.interactionLogs[i], start)]]
    \o [i \in Indices(data.elementSnapshots) |->
        [type |-> "snapshot",
         timestamp |-> data.elementSnapshots[i].timestamp,
         relativeTime |-> RelativeTime(data.elementSnapshots[i], start)]]

\* The logs handed to the exporters: any three lists of records, in any
\* order of their timestamps (Date.now() is the wall clock, which may be set
\* back).  The payload tells the records of a list apart.
\* video.duration of the recorded file: 0 for a recording without a frame,
\* else its length.
VideoDurations == 0..MaxVideo
TimestampLists == UNION {[1..n -> 0..MaxTs] : n \in 0..MaxList}
RecordsOf(ts) == [i \in Indices(ts) |-> [timestamp |-> ts[i], payload |-> i]]

InitMergeInput ==
    /\ InitNet
    /\ now \in 0..MaxClock
    /\ storedInteractionLogs = Undefined
    /\ InitInteraction
    /\ InitVideo
    /\ InitPlayer
    /\ InitExportCalls
    /\ InitDocuments
    /\ mergePc = "input"
    /\ captureData \in
          {[networkLogs |-> RecordsOf(a), interactionLogs |-> RecordsOf(b),
            elementSnapshots |-> RecordsOf(c)] :
              a \in TimestampLists, b \in TimestampLists,
              c \in TimestampLists}
    /\ allEvents = <<>>
    /\ startTime = 0
    /\ endTime = 0
    /\ duration = 0
    /\ tracks = <<>>
    /\ videoDuration = 0
    /\ currentTime = 0
    /\ progress = Some(0)

\* generateImprovedTimelineHTML, lines 932-974 and 1421.
GenerateImprovedTimelineHTML ==
    /\ mergePc = "input"
    /\ mergePc' = "logs"
    /\ \E later \in now..MaxClock :
         LET sorted == SortByTimestamp(CollectEvents(captureData))
         IN  /\ allEvents' = sorted
             /\ startTime' = StartTimeOf(sorted, now)
             /\ endTime' = EndTimeOf(sorted, later)
             /\ duration' = EndTimeOf(sorted, later) - StartTimeOf(sorted, now)
             /\ tracks' = GenerateTimelineTracks(captureData,
                                                 StartTimeOf(sorted, now))
    /\ UNCHANGED <<netVars, now, storedInteractionLogs, intVars, vidVars, playVars, expVars, docVars, captureData,
                   videoDuration, currentTime, progress>>

\* generateVideoTimelineHTML, lines 1907-1932 and 2361-2367.
GenerateVideoTimelineHTML ==
    /\ mergePc = "input"
    /\ mergePc' = "video"
    /\ \E later \in now..MaxClock :
         LET sorted == SortByTimestamp(CollectEvents(captureData))
         IN  /\ allEvents' = sorted
             /\ startTime' = StartTimeOf(sorted, now)
             /\ endTime' = EndTimeOf(sorted, later)
             /\ duration' = EndTimeOf(sorted, later) - StartTimeOf(sorted, now)
             /\ tracks' = GenerateLists(captureData, StartTimeOf(sorted, now))
    /\ videoDuration' \in VideoDurations
    /\ UNCHANGED <<netVars, now, storedInteractionLogs, intVars, vidVars, playVars, expVars, docVars, captureData,
                   currentTime, progress>>

\* processEvents of the exported page (lines 1449-1489): the page sorts the
\* embedded logs again and keeps duration = 0 when there is no event.
PageDuration(data) ==
    LET sorted == SortByTimestamp(CollectEvents(data))
    IN  IF Len(sorted) > 0
        THEN sorted[Len(sorted)].timestamp - sorted[1].timestamp
        ELSE 0

\* x / y * 100 as JavaScript computes it: 0 / 0 is NaN.  (A positive
\* numerator over 0 would be Infinity; the players never produce it, their
\* clock is at most the duration.)
Percent(x, y) == IF y = 0 THEN NaN ELSE Some((x * 100) \div y)

\* updateCursor, lines 1558-1561.
UpdateCursor(time, total) == IF total > 0 THEN Percent(time, total) ELSE Some(0)

\* The timeupdate listener of the video page, lines 2414-2416.
TimeUpdateProgress(time, total) == Percent(time, total)

\* The options of the speed selector (lines 1388-1394) that are explored;
\* 0.5, 5 and 10 are multiplied in the same way.
PlaybackSpeeds == {1, 2}

\* allEvents of the page's processEvents (lines 1449-1482).
PageEvents(data) == SortByTimestamp(CollectEvents(data))

\* startTime of the page (lines 1439, 1484-1486).
PageStartTime(data) ==
    IF Len(PageEvents(data)) > 0 THEN PageEvents(data)[1].timestamp ELSE 0

\* Variant: the clock is not held at the duration.
AdvanceClockUnclamped(time, deltaTime, speed, total) ==
    time + deltaTime * speed

\* Lines 1544-1549: the clock after a frame.
AdvanceClock(time, deltaTime, speed, total) ==
    IF time + deltaTime * speed >= total THEN total
    ELSE time + deltaTime * speed

\* The loop of updateCurrentEvent (lines 1578-1585): the index, counted
\* from 0, of the last event of the leading run of events that are not
\* later than currentTimestamp; -1 when the first event is later.
RECURSIVE FloorIndex(_, _, _)
FloorIndex(events, currentTimestamp, i) ==
    IF i > Len(events) THEN Len(events) - 1
    ELSE IF events[i].timestamp <= currentTimestamp
         THEN FloorIndex(events, currentTimestamp, i + 1)
         ELSE i - 2

\* animate (lines 1537-1556) for a frame deltaTime after the last one: the
\* clock, the cursor, and updateCurrentEvent (lines 1574-1592), which shows
\* the event found in the card when it is another one than before.
AnimateFrame(deltaTime) ==
    LET total == PageDuration(captureData)
        events == PageEvents(captureData)
        time == AdvanceClock(currentTime, deltaTime, playbackSpeed, total)
        newEventIndex ==
            FloorIndex(events, PageStartTime(captureData) + time, 1)
    IN  /\ currentTime' = time
        /\ isPlaying' = (currentTime + deltaTime * playbackSpeed < total)
        /\ lastFrameTime' = Some(performanceNow)
        /\ progress' = UpdateCursor(time, total)
        /\ IF newEventIndex # currentEventIndex /\ newEventIndex >= 0
           THEN /\ currentEventIndex' = newEventIndex
                /\ currentEventCard' = Some(events[newEventIndex + 1])
           ELSE UNCHANGED <<currentEventIndex, currentEventCard>>

\* startPlayback (lines 1510-1517): it runs animate at once, with no time
\* gone by since lastFrameTime was set.
StartPlayback ==
    /\ mergePc = "logs"
    /\ ~isPlaying
    /\ AnimateFrame(0)
    /\ UNCHANGED <<netVars, now, storedInteractionLogs, intVars, vidVars,
                   expVars, docVars, mergePc, captureData, allEvents, startTime,
                   endTime, duration, tracks, videoDuration, playbackSpeed,
                   performanceNow, lastScrub, detailsPanel, activeItems>>

\* pausePlayback (lines 1519-1526).
PausePlayback ==
    /\ mergePc = "logs"
    /\ isPlaying' = FALSE
    /\ UNCHANGED <<netVars, now, storedInteractionLogs, intVars, vidVars,
                   expVars, docVars, mergePc, captureData, allEvents, startTime,
                   endTime, duration, tracks, videoDuration, currentTime,
                   progress, playbackSpeed, lastFrameTime, performanceNow, lastScrub,
                   currentEventIndex, currentEventCard, detailsPanel,
                   activeItems>>

\* The change listener of the speed selector (lines 1495-1497).
SpeedChange(speed) ==
    /\ mergePc = "logs"
    /\ playbackSpeed' = speed
    /\ UNCHANGED <<netVars, now, storedInteractionLogs, intVars, vidVars,
                   expVars, docVars, mergePc, captureData, allEvents, startTime,
                   endTime, duration, tracks, videoDuration, currentTime,
                   progress, isPlaying, lastFrameTime, performanceNow, lastScrub,
                   currentEventIndex, currentEventCard, detailsPanel,
                   activeItems>>

\* performance.now() goes on by a millisecond.
PerformanceTick ==
    /\ mergePc = "logs"
    /\ performanceNow < MaxPerformance
    /\ performanceNow' = performanceNow + 1
    /\ UNCHANGED <<netVars, now, storedInteractionLogs, intVars, vidVars,
                   expVars, docVars, mergeVars, isPlaying, playbackSpeed, lastScrub,
                   lastFrameTime, currentEventIndex, currentEventCard,
                   detailsPanel, activeItems>>

\* animate as the callback of requestAnimationFrame (lines 1537-1556); it
\* returns at once when the player is paused.
Animate ==
    /\ mergePc = "logs"
    /\ isPlaying
    /\ AnimateFrame(performanceNow - lastFrameTime.value)
    /\ UNCHANGED <<netVars, now, storedInteractionLogs, intVars, vidVars,
                   expVars, docVars, mergePc, captureData, allEvents, startTime,
                   endTime, duration, tracks, videoDuration, playbackSpeed,
                   performanceNow, lastScrub, detailsPanel, activeItems>>

\* resetPlayback, lines 1528-1535.
ResetPlayback ==
    /\ mergePc = "logs"
    /\ isPlaying' = FALSE
    /\ currentTime' = 0
    /\ currentEventIndex' = -1
    /\ progress' = UpdateCursor(0, PageDuration(captureData))
    /\ currentEventCard' = Null
    /\ UNCHANGED <<netVars, now, storedInteractionLogs, intVars, vidVars,
                   expVars, docVars, mergePc, captureData, allEvents, startTime,
                   endTime, duration, tracks, videoDuration, playbackSpeed,
                   lastFrameTime, performanceNow, lastScrub, detailsPanel, activeItems>>

\* The click listener of pill number pill (lines 1499-1507): the event at
\* the pill's data-index in the page's allEvents is shown in the details
\* panel.  pill is kept with it, as history.
PillClick(pill) ==
    /\ mergePc = "logs"
    /\ pill \in Indices(tracks)
    /\ LET eventIndex == tracks[pill].index
           events == PageEvents(captureData)
       IN  IF eventIndex >= 0 /\ eventIndex < Len(events)
           THEN detailsPanel' =
                   [event |-> events[eventIndex + 1], pill |-> pill]
           ELSE UNCHANGED detailsPanel
    /\ UNCHANGED <<netVars, now, storedInteractionLogs, intVars, vidVars,
                   expVars, docVars, mergeVars, isPlaying, playbackSpeed,
                   lastFrameTime, performanceNow, lastScrub, currentEventIndex,
                   currentEventCard, activeItems>>

Abs(x) == IF x < 0 THEN -x ELSE x

\* Line 2445: the width of the highlight, in milliseconds.
HighlightWindow == 1000

\* highlightCurrentEvents (lines 2440-2451) of the video page: the list
\* items within a second of the current timestamp are the active ones.
HighlightCurrentEvents(items, start, currentTimeMs) ==
    {i \in Indices(items) :
        Abs(items[i].timestamp - (start + currentTimeMs)) < HighlightWindow}

\* The video element reports a new position, in seconds (lines 2413-2420).
TimeUpdate ==
    /\ mergePc = "video"
    /\ \E time \in 0..videoDuration :
         /\ currentTime' = time
         /\ progress' = TimeUpdateProgress(time, videoDuration)
         /\ activeItems' =
               HighlightCurrentEvents(tracks, startTime, time * 1000)
    /\ UNCHANGED <<netVars, now, storedInteractionLogs, intVars, vidVars,
                   expVars, docVars, mergePc, captureData, allEvents, startTime,
                   endTime, duration, tracks, videoDuration, isPlaying,
                   playbackSpeed, lastFrameTime, performanceNow, lastScrub,
                   currentEventIndex, currentEventCard, detailsPanel>>

NextMerge ==
    \/ GenerateImprovedTimelineHTML
    \/ GenerateVideoTimelineHTML
    \/ StartPlayback
    \/ PausePlayback
    \/ \E speed \in PlaybackSpeeds : SpeedChange(speed)
    \/ PerformanceTick
    \/ Animate
    \/ ResetPlayback
    \/ \E pill \in 1..(3 * MaxList) : PillClick(pill)
    \/ TimeUpdate

SpecMerge == InitMergeInput /\ [][NextMerge]_vars

\* The logs given to the players: timestamps far enough apart for a frame
\* that ends before the duration, the three lists in any order of their
\* timestamps.
PlayerTimestampLists(n) == UNION {[1..m -> 0..MaxPlayTs] : m \in 0..n}

InitPlayerInput ==
    /\ InitNet
    /\ now = 0
    /\ storedInteractionLogs = Undefined
    /\ InitInteraction
    /\ InitVideo
    /\ InitPlayer
    /\ InitExportCalls
    /\ InitDocuments
    /\ mergePc = "input"
    /\ captureData \in
          {[networkLogs |-> RecordsOf(a), interactionLogs |-> RecordsOf(b),
            elementSnapshots |-> RecordsOf(c)] :
              a \in PlayerTimestampLists(MaxList),
              b \in PlayerTimestampLists(1),
              c \in PlayerTimestampLists(1)}
    /\ allEvents = <<>>
    /\ startTime = 0
    /\ endTime = 0
    /\ duration = 0
    /\ tracks = <<>>
    /\ videoDuration = 0
    /\ currentTime = 0
    /\ progress = Some(0)

SpecPlayer == InitPlayerInput /\ [][NextMerge]_vars

\* The places of a click on a scrubber: pos / ScrubSteps of its width
\* ((e.clientX - rect.left) / rect.width, line 2425).
ScrubPositions == 0..ScrubSteps

\* The click listener of the video page's timelineSlider (lines 2423-2427):
\* video.currentTime = pos * video.duration.  The places that give a whole
\* number of seconds are explored.  The timeupdate event of the seek comes
\* later.
TimelineSliderClick(pos) ==
    /\ mergePc = "video"
    /\ (pos * videoDuration) % ScrubSteps = 0
    /\ currentTime' = (pos * videoDuration) \div ScrubSteps
    /\ lastScrub' = [pos |-> pos]
    /\ UNCHANGED <<netVars, now, storedInteractionLogs, intVars, vidVars,
                   expVars, docVars, mergePc, captureData, allEvents, startTime,
                   endTime, duration, tracks, videoDuration, progress,
                   isPlaying, playbackSpeed, lastFrameTime, performanceNow,
                   currentEventIndex, currentEventCard, detailsPanel,
                   activeItems>>

\* A click on the timeline of the logs-only page: setupEventListeners
\* (lines 1491-1508) gives the timeline and its cursor no listener, so
\* nothing of the page changes.
TimelineClick(pos) ==
    /\ mergePc = "logs"
    /\ lastScrub' = [pos |-> pos]
    /\ UNCHANGED <<netVars, now, storedInteractionLogs, intVars, vidVars,
                   expVars, docVars, mergeVars, isPlaying, playbackSpeed,
                   lastFrameTime, performanceNow, currentEventIndex,
                   currentEventCard, detailsPanel, activeItems>>

NextScrub ==
    \/ GenerateImprovedTimelineHTML
    \/ GenerateVideoTimelineHTML
    \/ StartPlayback
    \/ PerformanceTick
    \/ Animate
    \/ TimeUpdate
    \/ \E pos \in ScrubPositions : TimelineSliderClick(pos)
    \/ \E pos \in ScrubPositions : TimelineClick(pos)

SpecScrub == InitPlayerInput /\ [][NextScrub]_vars

(***************************************************************************)
(* The video store (background.js 340-505): one object store of IndexedDB, *)
(* the recording kept under the key 'current-video'.                       *)
(***************************************************************************)
maxDataUrlSize == 10485760     \* line 1886: 10 * 1024 * 1024
veryLargeVideo == 524288000    \* line 818: 500 * 1024 * 1024

\* The sizes of the recordings explored: a short one and one of exactly the
\* size from which the page refers to the file.  onstop of the offscreen
\* script (lines 1613-1637) hands over no empty recording.
BlobSizes == {1, maxDataUrlSize}

\* The record storeVideoBlob puts (lines 409-417); recording tells which
\* recording the blob is of.
VideoRecord(recording, size) == [recording |-> recording, size |-> size]

(***************************************************************************)
(* The video coordinator (background.js 63-123, 136-255, 268-333) and the  *)
(* offscreen document's message handler (offscreen script 1407-1436,       *)
(* 1449-1763, 1774-1840)                                                   *)
(***************************************************************************)
maxRetriesStream == 2       \* line 191
maxRetriesMessage == 3      \* line 91
OverlapCooldown == 2000     \* line 152
RetryCooldown == 2000       \* line 217
MessageBackoff == 500       \* line 112

\* What chrome.tabs.get reports as the protocol of the tab's URL ("" for a
\* URL that does not parse), or that the tab does not exist.
UrlSchemes == {"https:", "chrome:", ""}
allowedSchemes == {"http:", "https:"}

\* Line 179.  Variant first: every scheme that parses is let through.
SchemeAllowedIfParsed(urlScheme) == urlScheme # ""

SchemeAllowed(urlScheme) == urlScheme \in allowedSchemes

\* Line 110.  Variant first: the send is repeated once more.
SendAgainOnceMore(attempt) == attempt < maxRetriesMessage + 1

SendAgain(attempt) == attempt < maxRetriesMessage

\* Line 112.
BackoffWait(attempt) == MessageBackoff * attempt

otherVars == <<now, storedInteractionLogs, intVars, mergeVars, playVars,
               expVars, docVars>>

\* One call of startVideoCapture or stopVideoCapture.  pc is the await the
\* call is suspended at; ret tells a stopVideoCapture where it was called
\* from ("command": the message listener, "overlap": line 150, "retry": line
\* 211).  The fields from recordingAtCall on are history: whether the tab
\* was being recorded when the call was made, and what the call did so far.
NewVideoCall(op, tabId) ==
    [op |-> op, tabId |-> tabId, pc |-> "done", ret |-> "command",
     retryCount |-> 0, attempt |-> 0, streamId |-> Undefined,
     result |-> "pending", error |-> "none",
     recordingAtCall |-> FALSE, scheme |-> "unknown", stopSent |-> FALSE,
     cleaned |-> FALSE, cooldown |-> 0, requests |-> 0, sends |-> 0,
     retryWaits |-> <<>>, sendWaits |-> <<>>, documents |-> 0, acked |-> FALSE,
     idleAtCall |-> FALSE]

SetCall(c, call) == videoCalls' = [videoCalls EXCEPT ![c] = call]

Suspended(c, pc) == c \in Indices(videoCalls) /\ videoCalls[c].pc = pc

\* The catch of lines 251-254: the call answers {success: false, error}.
Failed(call, error) ==
    [call EXCEPT !.pc = "done", !.result = "failure", !.error = error]

\* stopVideoCapture up to its first await: the stop message is on its way
\* (lines 274-278).  With no offscreen document there is nobody to receive
\* it: sendMessage rejects, the catch of lines 280-283 runs and the wait of
\* line 289 begins.
SendStopSignal(call, ret) ==
    [call EXCEPT !.pc = IF offscreenDocument THEN "stopSignal" ELSE "stopWait",
                 !.ret = ret, !.stopSent = TRUE]

\* Nothing records and nothing is about to: no recording flag, no attached
\* tab, no coordinator state, no helper, no call in flight.
NoRecordingActive ==
    /\ ~isRecording
    /\ attachedTabs = {}
    /\ currentRecordingTabId = Null
    /\ videoStartTime = Null
    /\ ~offscreenDocument
    /\ mediaRecorder = Null
    /\ \A c \in Indices(videoCalls) : videoCalls[c].pc = "done"
    /\ \A t \in Tabs : startPc[t] = "idle" /\ stopPc[t] = "idle"

\* The startVideoCapture message (lines 562-566) and startVideoCapture up to
\* its first await: the check of line 142, then stopRecording's detach (line
\* 147, 766), or stopVideoCapture's stop message (line 150, 275), or lines
\* 160-164.
StartVideoCapture(tabId) ==
    /\ Len(videoCalls) < MaxCommands
    /\ LET call == [NewVideoCall("start", tabId) EXCEPT
                       !.recordingAtCall = mediaRecorder # Null]
       IN  IF currentRecordingTabId = Some(tabId) \/ isRecording
           THEN /\ videoCalls' = Append(videoCalls,
                     IF tabId \in attachedTabs
                     THEN [call EXCEPT !.pc = "detach", !.ret = "overlap"]
                     ELSE SendStopSignal(call, "overlap"))
                /\ UNCHANGED <<currentRecordingTabId, videoStartTime>>
           ELSE /\ videoCalls' = Append(videoCalls,
                                        [call EXCEPT !.pc = "tabsGet"])
                /\ currentRecordingTabId' = Some(tabId)
                /\ videoStartTime' = Some(now)
    /\ UNCHANGED <<netVars, otherVars, storedIsVideoRecording,
                   offscreenDocument, mediaRecorder, videoStored>>

\* The stopVideoCapture message (lines 568-572) and stopVideoCapture up to
\* its first await (line 275).
StopVideoCapture(tabId) ==
    /\ Len(videoCalls) < MaxCommands
    /\ videoCalls' = Append(videoCalls,
          [SendStopSignal(NewVideoCall("stop", tabId), "command") EXCEPT
              !.idleAtCall = NoRecordingActive])
    /\ UNCHANGED <<netVars, otherVars, currentRecordingTabId, videoStartTime,
                   storedIsVideoRecording, offscreenDocument, mediaRecorder,
                   videoStored>>

\* stopRecording called from startVideoCapture (lines 147 and 214) after
\* chrome.debugger.detach settled: lines 768-772, or the catch of 774-777.
\* Then line 150 (the stop message) or line 217 (the wait).
VideoDetachSettled(c) ==
    /\ Suspended(c, "detach")
    /\ LET call == videoCalls[c]
           t == call.tabId
       IN  /\ attachedTabs' = attachedTabs \ {t}
           /\ IF t \in dbgAttached
              THEN /\ dbgAttached' = dbgAttached \ {t}
                   /\ isRecording' = FALSE
              ELSE UNCHANGED <<dbgAttached, isRecording>>
           /\ SetCall(c, IF call.ret = "overlap"
                         THEN SendStopSignal(call, "overlap")
                         ELSE [call EXCEPT !.pc = "retryWait"])
    /\ UNCHANGED <<networkLogs, closedTabs, startPc, stopPc, respTasks,
                   unhandled, respSeen, dupTerminal, nEvents, otherVars,
                   currentRecordingTabId, videoStartTime,
                   storedIsVideoRecording, offscreenDocument, mediaRecorder,
                   videoStored>>

\* chrome.runtime.sendMessage of the stop message settled (lines 275-283).
\* The offscreen document answered: stopRecording of the offscreen script
\* (lines 1774-1840) stopped the recorder, onstop (lines 1613-1701) handed
\* the video over if there was data, and the listener of background.js
\* 516-543 stored it.  Or the document was closed before it answered and
\* sendMessage rejects.  Either way the wait of line 289 begins.
StopSignalSettled(c) ==
    /\ Suspended(c, "stopSignal")
    /\ IF offscreenDocument
       THEN /\ mediaRecorder' = Null
            /\ IF mediaRecorder # Null
               THEN \E handedOver \in BOOLEAN, size \in BlobSizes :
                       videoStored' = IF handedOver
                                      THEN VideoRecord(mediaRecorder.by, size)
                                      ELSE videoStored
               ELSE UNCHANGED videoStored
       ELSE UNCHANGED <<mediaRecorder, videoStored>>
    /\ SetCall(c, [videoCalls[c] EXCEPT !.pc = "stopWait"])
    /\ UNCHANGED <<netVars, otherVars, currentRecordingTabId, videoStartTime,
                   storedIsVideoRecording, offscreenDocument>>

\* The wait of line 289 is over; chrome.storage.local.remove is called
\* (line 296).
StopWaitElapsed(c) ==
    /\ Suspended(c, "stopWait")
    /\ SetCall(c, [videoCalls[c] EXCEPT !.pc = "stopRemove"])
    /\ UNCHANGED <<netVars, otherVars, currentRecordingTabId, videoStartTime,
                   storedIsVideoRecording, offscreenDocument, mediaRecorder,
                   videoStored>>

\* chrome.storage.local.remove settled: on to closing the document (line
\* 305), or, when it rejected, to the catch of line 324.
StorageRemoveSettled(c) ==
    /\ Suspended(c, "stopRemove")
    /\ \E resolved \in BOOLEAN :
         IF resolved
         THEN /\ storedIsVideoRecording' = FALSE
              /\ SetCall(c, [videoCalls[c] EXCEPT !.pc = "stopClose"])
         ELSE /\ UNCHANGED storedIsVideoRecording
              /\ SetCall(c, [videoCalls[c] EXCEPT !.pc = "stopCatch"])
    /\ UNCHANGED <<netVars, otherVars, currentRecordingTabId, videoStartTime,
                   offscreenDocument, mediaRecorder, videoStored>>

\* Variant: a stop command given while nothing recorded is answered with
\* an error.
AfterStopVideoCaptureStrict(call) ==
    IF call.ret = "command"
    THEN [call EXCEPT !.pc = "done", !.cleaned = TRUE,
                      !.result = IF call.idleAtCall THEN "failure"
                                 ELSE "success"]
    ELSE IF call.ret = "overlap"
    THEN [call EXCEPT !.pc = "cooldown", !.cleaned = TRUE]
    ELSE IF call.tabId \in attachedTabs
    THEN [call EXCEPT !.pc = "detach", !.cleaned = TRUE]
    ELSE [call EXCEPT !.pc = "retryWait", !.cleaned = TRUE]

\* Where a stopVideoCapture that is over returns to: the message listener
\* answers success (line 570); or the wait of line 152; or, at line 213,
\* stopRecording's detach when the tab is attached, else the wait of 217.
AfterStopVideoCapture(call) ==
    IF call.ret = "command"
    THEN [call EXCEPT !.pc = "done", !.result = "success", !.cleaned = TRUE]
    ELSE IF call.ret = "overlap"
    THEN [call EXCEPT !.pc = "cooldown", !.cleaned = TRUE]
    ELSE IF call.tabId \in attachedTabs
    THEN [call EXCEPT !.pc = "detach", !.cleaned = TRUE]
    ELSE [call EXCEPT !.pc = "retryWait", !.cleaned = TRUE]

\* Lines 305-321: the offscreen document, if there is one, is closed (with
\* it go its recorder and its stream) and the coordinator's state is reset.
\* getContexts and closeDocument are taken as one step.
StopCloseDocument(c) ==
    /\ Suspended(c, "stopClose")
    /\ offscreenDocument' = FALSE
    /\ mediaRecorder' = Null
    /\ currentRecordingTabId' = Null
    /\ videoStartTime' = Null
    /\ SetCall(c, AfterStopVideoCapture(videoCalls[c]))
    /\ UNCHANGED <<netVars, otherVars, storedIsVideoRecording, videoStored>>

\* The catch of lines 324-332: the document is closed, nothing is reset.
StopCatchClose(c) ==
    /\ Suspended(c, "stopCatch")
    /\ offscreenDocument' = FALSE
    /\ mediaRecorder' = Null
    /\ SetCall(c, AfterStopVideoCapture(videoCalls[c]))
    /\ UNCHANGED <<netVars, otherVars, currentRecordingTabId, videoStartTime,
                   storedIsVideoRecording, videoStored>>

\* The wait of line 152 is over: lines 160-164.
CooldownElapsed(c) ==
    /\ Suspended(c, "cooldown")
    /\ currentRecordingTabId' = Some(videoCalls[c].tabId)
    /\ videoStartTime' = Some(now)
    /\ SetCall(c, [videoCalls[c] EXCEPT !.pc = "tabsGet",
                                        !.cooldown = OverlapCooldown])
    /\ UNCHANGED <<netVars, otherVars, storedIsVideoRecording,
                   offscreenDocument, mediaRecorder, videoStored>>

\* Line 195: chrome.tabCapture.getMediaStreamId is called.
RequestStream(call) ==
    [call EXCEPT !.pc = "getStream", !.requests = @ + 1]

\* chrome.tabs.get settled (line 164): the throw of line 182 for a scheme
\* that is not allowed, the rejection for a tab that is gone, else the
\* first request of the capture handle (line 195).
TabsGetSettled(c) ==
    /\ Suspended(c, "tabsGet")
    /\ \E urlScheme \in UrlSchemes \cup {"no tab"} :
         LET call == [videoCalls[c] EXCEPT !.scheme = urlScheme]
         IN  SetCall(c, IF urlScheme = "no tab" THEN Failed(call, "tab")
                        ELSE IF ~SchemeAllowed(urlScheme)
                        THEN Failed(call, "scheme")
                        ELSE RequestStream(call))
    /\ UNCHANGED <<netVars, otherVars, currentRecordingTabId, videoStartTime,
                   storedIsVideoRecording, offscreenDocument, mediaRecorder,
                   videoStored>>

\* getMediaStreamId resolved (line 198); createOffscreenDocument is called
\* and asks for the contexts (line 68).  The browser grants no handle for a
\* tab that has a stream.
StreamGranted(c) ==
    /\ Suspended(c, "getStream")
    /\ mediaRecorder = Null
    /\ SetCall(c, [videoCalls[c] EXCEPT !.pc = "contexts",
                                        !.streamId = Some("stream")])
    /\ UNCHANGED <<netVars, otherVars, currentRecordingTabId, videoStartTime,
                   storedIsVideoRecording, offscreenDocument, mediaRecorder,
                   videoStored>>

\* getMediaStreamId rejected with 'active stream' (lines 201-211): the
\* throw of line 204 after the last retry, else stopVideoCapture.  The
\* browser may still hold a stream that the extension has let go.
StreamBusy(c) ==
    /\ Suspended(c, "getStream")
    /\ LET call == [videoCalls[c] EXCEPT !.retryCount = @ + 1]
       IN  SetCall(c, IF call.retryCount > maxRetriesStream
                      THEN Failed(call, "busy")
                      ELSE SendStopSignal(call, "retry"))
    /\ UNCHANGED <<netVars, otherVars, currentRecordingTabId, videoStartTime,
                   storedIsVideoRecording, offscreenDocument, mediaRecorder,
                   videoStored>>

\* getMediaStreamId rejected with another error (line 224) or resolved
\* without an id (lines 229-233).
StreamError(c) ==
    /\ Suspended(c, "getStream")
    /\ SetCall(c, Failed(videoCalls[c], "capture"))
    /\ UNCHANGED <<netVars, otherVars, currentRecordingTabId, videoStartTime,
                   storedIsVideoRecording, offscreenDocument, mediaRecorder,
                   videoStored>>

\* The wait of line 217 is over: the next turn of the loop of line 193.
RetryWaitElapsed(c) ==
    /\ Suspended(c, "retryWait")
    /\ SetCall(c, RequestStream(
          [videoCalls[c] EXCEPT !.retryWaits = Append(@, RetryCooldown)]))
    /\ UNCHANGED <<netVars, otherVars, currentRecordingTabId, videoStartTime,
                   storedIsVideoRecording, offscreenDocument, mediaRecorder,
                   videoStored>>

\* getContexts resolved (lines 68-82): the document is reused, or
\* chrome.offscreen.createDocument is called.
ContextsSettled(c) ==
    /\ Suspended(c, "contexts")
    /\ SetCall(c, [videoCalls[c] EXCEPT
                      !.pc = IF offscreenDocument THEN "ready"
                             ELSE "creating"])
    /\ UNCHANGED <<netVars, otherVars, currentRecordingTabId, videoStartTime,
                   storedIsVideoRecording, offscreenDocument, mediaRecorder,
                   videoStored>>

\* createDocument settled (lines 76-81): it rejects when a document exists
\* by now (there is at most one), and the start fails (lines 119-121).
CreateDocumentSettled(c) ==
    /\ Suspended(c, "creating")
    /\ IF offscreenDocument
       THEN /\ SetCall(c, Failed(videoCalls[c], "document"))
            /\ UNCHANGED offscreenDocument
       ELSE /\ SetCall(c, [videoCalls[c] EXCEPT !.pc = "ready",
                                                !.documents = @ + 1])
            /\ offscreenDocument' = TRUE
    /\ UNCHANGED <<netVars, otherVars, currentRecordingTabId, videoStartTime,
                   storedIsVideoRecording, mediaRecorder, videoStored>>

\* Line 98: the start message is sent.
SendStartSignal(call) ==
    [call EXCEPT !.pc = "startSignal", !.attempt = @ + 1, !.sends = @ + 1]

\* The wait of line 87 is over: the first turn of the loop of line 94.
DocumentReadyElapsed(c) ==
    /\ Suspended(c, "ready")
    /\ SetCall(c, SendStartSignal(videoCalls[c]))
    /\ UNCHANGED <<netVars, otherVars, currentRecordingTabId, videoStartTime,
                   storedIsVideoRecording, offscreenDocument, mediaRecorder,
                   videoStored>>

\* sendMessage of the start message rejects (lines 106-114): no document,
\* or one whose script does not listen yet.  The wait of line 112, or the
\* throw of line 118 after the last attempt.
StartSignalRejected(c) ==
    /\ Suspended(c, "startSignal")
    /\ SetCall(c, IF SendAgain(videoCalls[c].attempt)
                  THEN [videoCalls[c] EXCEPT !.pc = "backoff"]
                  ELSE Failed(videoCalls[c], "helper"))
    /\ UNCHANGED <<netVars, otherVars, currentRecordingTabId, videoStartTime,
                   storedIsVideoRecording, offscreenDocument, mediaRecorder,
                   videoStored>>

\* The wait of line 112 is over: the next turn of the loop.
BackoffElapsed(c) ==
    /\ Suspended(c, "backoff")
    /\ SetCall(c, SendStartSignal(
          [videoCalls[c] EXCEPT
              !.sendWaits = Append(@, BackoffWait(videoCalls[c].attempt))]))
    /\ UNCHANGED <<netVars, otherVars, currentRecordingTabId, videoStartTime,
                   storedIsVideoRecording, offscreenDocument, mediaRecorder,
                   videoStored>>

\* The offscreen document answers the start message (offscreen script
\* 1410-1421): startRecording let go of the recorder it had (1454-1470) and
\* then started one, answering {success: true}, or threw, answering
\* {success: false}.  sendMessage resolves either way; createOffscreenDocument
\* returns (line 105) and chrome.storage.local.set is called (line 243).
HelperStartRecording(c) ==
    /\ Suspended(c, "startSignal")
    /\ offscreenDocument
    /\ \E started \in BOOLEAN :
         /\ mediaRecorder' = IF started
                             THEN [tabId |-> videoCalls[c].tabId, by |-> c]
                             ELSE Null
         /\ SetCall(c, [videoCalls[c] EXCEPT !.pc = "storing",
                                             !.acked = started])
    /\ UNCHANGED <<netVars, otherVars, currentRecordingTabId, videoStartTime,
                   storedIsVideoRecording, offscreenDocument, videoStored>>

\* chrome.storage.local.set resolved (lines 243-250): the start answers
\* {success: true}.
StorageSetSettled(c) ==
    /\ Suspended(c, "storing")
    /\ storedIsVideoRecording' = TRUE
    /\ SetCall(c, [videoCalls[c] EXCEPT !.pc = "done", !.result = "success"])
    /\ UNCHANGED <<netVars, otherVars, currentRecordingTabId, videoStartTime,
                   offscreenDocument, mediaRecorder, videoStored>>

\* The log of the network recording so far.
RecordedLogs ==
    <<NewLogEntry([requestId |-> "x", url |-> "https://a/api"], 1, 0)>>

\* The service worker with one request logged, the network recording of a
\* tab either still on (startRecording, lines 616-635) or stopped.
InitVideoCoordinator ==
    /\ isRecording \in BOOLEAN
    /\ networkLogs = RecordedLogs
    /\ attachedTabs = IF isRecording THEN Tabs ELSE {}
    /\ dbgAttached = attachedTabs
    /\ closedTabs = {}
    /\ startPc = [t \in Tabs |-> "idle"]
    /\ stopPc = [t \in Tabs |-> "idle"]
    /\ respTasks = <<>>
    /\ unhandled = FALSE
    /\ respSeen = [i \in Indices(networkLogs) |-> FALSE]
    /\ dupTerminal = FALSE
    /\ nEvents = 0
    /\ now = 0
    /\ storedInteractionLogs = Undefined
    /\ InitInteraction
    /\ InitMerge
    /\ InitVideo
    /\ InitPlayer
    /\ InitExportCalls
    /\ InitDocuments

NextVideo ==
    \/ \E t \in Tabs : \/ StartVideoCapture(t)
                       \/ StopVideoCapture(t)
                       \/ StopRecordingBegin(t)
                       \/ StopRecordingDetached(t)
    \/ \E c \in 1..MaxCommands : \/ VideoDetachSettled(c)
                                 \/ StopSignalSettled(c)
                                 \/ StopWaitElapsed(c)
                                 \/ StorageRemoveSettled(c)
                                 \/ StopCloseDocument(c)
                                 \/ StopCatchClose(c)
                                 \/ CooldownElapsed(c)
                                 \/ TabsGetSettled(c)
                                 \/ StreamGranted(c)
                                 \/ StreamBusy(c)
                                 \/ StreamError(c)
                                 \/ RetryWaitElapsed(c)
                                 \/ ContextsSettled(c)
                                 \/ CreateDocumentSettled(c)
                                 \/ DocumentReadyElapsed(c)
                                 \/ StartSignalRejected(c)
                                 \/ BackoffElapsed(c)
                                 \/ HelperStartRecording(c)
                                 \/ StorageSetSettled(c)

SpecVideo == InitVideoCoordinator /\ [][NextVideo]_vars

\* What call c does by itself once the browser lets it go on: timers run
\* out and the calls to the browser's own API settle.  Whether the offscreen
\* document answers a message is up to that document.
VideoStep(c) ==
    \/ VideoDetachSettled(c)
    \/ (~offscreenDocument /\ StopSignalSettled(c))
    \/ StopWaitElapsed(c)
    \/ StorageRemoveSettled(c)
    \/ StopCloseDocument(c)
    \/ StopCatchClose(c)
    \/ CooldownElapsed(c)
    \/ TabsGetSettled(c)
    \/ StreamGranted(c)
    \/ StreamBusy(c)
    \/ StreamError(c)
    \/ RetryWaitElapsed(c)
    \/ ContextsSettled(c)
    \/ CreateDocumentSettled(c)
    \/ DocumentReadyElapsed(c)
    \/ BackoffElapsed(c)
    \/ StorageSetSettled(c)

SpecVideoLive ==
    /\ InitVideoCoordinator
    /\ [][NextVideo]_vars
    /\ \A c \in 1..MaxCommands : WF_vars(VideoStep(c))
    /\ \A t \in Tabs : WF_vars(StopRecordingDetached(t))

(***************************************************************************)
(* exportAllLogs (background.js 793-930): an async function that reads the *)
(* two logs of chrome.storage.local, in video mode the recording of the    *)
(* video store, and hands up to three files to chrome.downloads.download.  *)
(* It is split at its awaits; the platform decides how each one settles.   *)
(***************************************************************************)
ExportModes == {"logs", "video"}

\* The recordings that began so far: the start-video commands whose start
\* message the offscreen document answered with success and that answered
\* success themselves.
RecordingsStarted ==
    {c \in Indices(videoCalls) :
        /\ videoCalls[c].op = "start"
        /\ videoCalls[c].acked
        /\ videoCalls[c].result = "success"}

\* One call of exportAllLogs.  pc is the await the call is suspended at.
\* exportData.networkLogs (line 875) is the array that the worker's
\* networkLogs named when exportData was built: heldLogs is Null while
\* networkLogs still names that array, and the array itself once networkLogs
\* was assigned a new one (lines 628, 2538).  captureData is the data that
\* the page embeds (lines 1432, 2374).  downloadRequested is the file name
\* that chrome.downloads.download was called with for the video (line 851).
\* From logsAtCall on the fields are history: the length of networkLogs when
\* the call was made, how the retrieval and the conversion and saving of
\* the video went, the await whose rejection ended the call, and the
\* recordings that had begun when the call was made.
NewExportCall(tabId, mode) ==
    [tabId |-> tabId, mode |-> mode, pc |-> "storageGet",
     interactionLogs |-> <<>>, elementSnapshots |-> <<>>,
     videoBlob |-> Null, videoFileName |-> Null, downloadRequested |-> Null,
     json |-> Null, heldLogs |-> Null, html |-> Null, captureData |-> Null,
     saved |-> {}, result |-> "pending",
     logsAtCall |-> Len(networkLogs), retrieval |-> "none",
     videoFile |-> "none", embedding |-> "none", thrownAt |-> "none",
     startedBefore |-> RecordingsStarted]

SetExport(e, call) == exportCalls' = [exportCalls EXCEPT ![e] = call]

ExportSuspended(e, pc) == e \in Indices(exportCalls) /\ exportCalls[e].pc = pc

\* The catch of lines 926-929: the error is thrown on to the listener, which
\* answers {success: false} (lines 582-586).
ExportThrown(call) ==
    [call EXCEPT !.pc = "done", !.result = "error", !.thrownAt = call.pc]

\* `capture_all_video_${timestamp}.webm` (line 826).
VideoFileNameAt(ts) == [name |-> "capture_all_video", timestamp |-> ts]

\* videoFileName || 'video.webm' (line 1901).
DefaultVideoFileName == [name |-> "video.webm", timestamp |-> 0]

\* Variant: a video is always reported.
VideoDataAlways(videoBlob, videoFileName) ==
    [hasVideo |-> TRUE, videoFileName |-> videoFileName,
     videoSize |-> IF videoBlob = Null THEN 0 ELSE videoBlob.size]

\* videoData of the export, lines 878-882.
VideoDataOf(videoBlob, videoFileName) ==
    IF videoBlob # Null
    THEN [hasVideo |-> TRUE, videoFileName |-> videoFileName,
          videoSize |-> videoBlob.size]
    ELSE [hasVideo |-> FALSE]

\* Variant: the requests are counted as they were when the export began.
SummaryAtCall(call, logs) ==
    [totalNetworkRequests |-> call.logsAtCall,
     totalInteractions |-> Len(call.interactionLogs),
     totalElementSnapshots |-> Len(call.elementSnapshots)]

\* summary of the export, lines 883-887.
SummaryOf(call, logs) ==
    [totalNetworkRequests |-> Len(logs),
     totalInteractions |-> Len(call.interactionLogs),
     totalElementSnapshots |-> Len(call.elementSnapshots)]

\* exportData (lines 871-888) as JSON.stringify writes it at line 894, with
\* no await in between: the arrays as they are at that moment.
BuildExportData(call, logs) ==
    [tabId |-> call.tabId, mode |-> call.mode,
     networkLogs |-> logs,
     interactionLogs |-> call.interactionLogs,
     elementSnapshots |-> call.elementSnapshots,
     videoData |-> VideoDataOf(call.videoBlob, call.videoFileName),
     summary |-> SummaryOf(call, logs)]

\* Lines 870-901: the JSON document is written and its download requested.
RequestJsonDownload(call) ==
    [call EXCEPT !.json = BuildExportData(call, networkLogs),
                 !.pc = "jsonDownload"]

\* Variant: a recording of exactly the limit is embedded too.
EmbedInlineUpToLimit(size) == size <= maxDataUrlSize

\* videoBlob.size < maxDataUrlSize, line 1888.
EmbedInline(size) == size < maxDataUrlSize

\* The video section of the page of generateVideoTimelineHTML (lines
\* 2294-2329) for a videoSrc: the video element and the controls, or the
\* placeholder, which names the file when there is a file name.
VideoTimelineHTML(videoSrc, videoFileName) ==
    [page |-> "video",
     video |-> videoSrc,
     controls |-> videoSrc # Null,
     placeholder |-> videoSrc = Null,
     fileHint |-> IF videoSrc = Null THEN videoFileName ELSE Null]

\* The page of generateImprovedTimelineHTML has no video section.
ImprovedTimelineHTML ==
    [page |-> "logs", video |-> Null, controls |-> FALSE,
     placeholder |-> FALSE, fileHint |-> Null]

\* videoSrc of a recording that is not embedded, lines 1898-1905.
FileReference(videoBlob, videoFileName) ==
    IF videoBlob = Null THEN Null
    ELSE [file |-> IF videoFileName # Null THEN videoFileName
                   ELSE DefaultVideoFileName]

\* exportData as the page generators read it (lines 908, 910) and embed it
\* (JSON.stringify(data), lines 1432 and 2374): the object built at lines
\* 871-888, whose networkLogs is the array itself, with the entries pushed
\* to it since (line 669).
ExportDataAt(call) ==
    [call.json EXCEPT !.networkLogs = IF call.heldLogs = Null
                                      THEN networkLogs
                                      ELSE call.heldLogs.value]

\* Lines 904-920 after the JSON file was saved: the page is generated and
\* its download requested, or generateVideoTimelineHTML first waits for the
\* FileReader (lines 1888-1896).
GenerateHtml(call) ==
    IF call.mode = "video"
    THEN IF call.videoBlob # Null /\ EmbedInline(call.videoBlob.size)
         THEN [call EXCEPT !.pc = "htmlReader"]
         ELSE [call EXCEPT
                 !.pc = "htmlDownload",
                 !.embedding = IF call.videoBlob = Null THEN "none"
                               ELSE "file",
                 !.html = VideoTimelineHTML(
                             FileReference(call.videoBlob, call.videoFileName),
                             call.videoFileName),
                 !.captureData = ExportDataAt(call)]
    ELSE [call EXCEPT !.pc = "htmlDownload", !.html = ImprovedTimelineHTML,
                      !.captureData = ExportDataAt(call)]

\* The exportLogs message (lines 581-586) and exportAllLogs up to its first
\* await, chrome.storage.local.get (line 798).
ExportAllLogsCalled(tabId, mode) ==
    /\ Len(exportCalls) < MaxExports
    /\ exportCalls' = Append(exportCalls, NewExportCall(tabId, mode))
    /\ UNCHANGED <<netVars, now, storedInteractionLogs, intVars, mergeVars,
                   vidVars, playVars, docVars,
                   storedElementSnapshots>>

\* chrome.storage.local.get settled (lines 798-808): the two logs are read;
\* in video mode getVideoBlob is called, else the JSON document is written.
ExportStorageGetSettled(e) ==
    /\ ExportSuspended(e, "storageGet")
    /\ \E resolved \in BOOLEAN :
         LET call == [exportCalls[e] EXCEPT
                        !.interactionLogs =
                            StoredOrEmpty(storedInteractionLogs),
                        !.elementSnapshots =
                            StoredOrEmpty(storedElementSnapshots)]
         IN  SetExport(e,
                IF ~resolved THEN ExportThrown(exportCalls[e])
                ELSE IF call.mode = "video"
                     THEN [call EXCEPT !.pc = "getVideoBlob"]
                     ELSE RequestJsonDownload(call))
    /\ UNCHANGED <<netVars, now, storedInteractionLogs, intVars, mergeVars,
                   vidVars, playVars, docVars,
                   storedElementSnapshots>>

\* Lines 810-826 for the blob getVideoBlob resolved with: an empty blob is
\* dropped, a very large one is kept but not saved as a file, any other is
\* read by a FileReader for its download.
ValidateVideoBlob(call, blob) ==
    IF blob = Null THEN RequestJsonDownload(call)
    ELSE IF blob.size = 0 THEN RequestJsonDownload(call)
    ELSE IF blob.size > veryLargeVideo
         THEN RequestJsonDownload([call EXCEPT !.videoBlob = blob])
    ELSE [call EXCEPT !.videoBlob = blob,
                      !.videoFileName = VideoFileNameAt(now),
                      !.pc = "readBlob"]

\* getVideoBlob settled (lines 441-472, 808).  The request of the store
\* succeeded, with the record or with nothing; or opening the database
\* failed, which the catch of line 468 turns into null; or the request
\* failed: the promise of line 447 is returned, not awaited, so its
\* rejection passes the catch of getVideoBlob and exportAllLogs throws.
ExportGetVideoBlobSettled(e) ==
    /\ ExportSuspended(e, "getVideoBlob")
    /\ \E outcome \in {"success", "openFailed", "requestFailed"} :
         LET call == [exportCalls[e] EXCEPT
                        !.retrieval =
                            IF outcome # "success" THEN "failed"
                            ELSE IF videoStored = Null THEN "absent"
                            ELSE "found"]
         IN  SetExport(e,
                IF outcome = "requestFailed" THEN ExportThrown(call)
                ELSE IF outcome = "openFailed"
                     THEN ValidateVideoBlob(call, Null)
                     ELSE ValidateVideoBlob(call, videoStored))
    /\ UNCHANGED <<netVars, now, storedInteractionLogs, intVars, mergeVars,
                   vidVars, playVars, docVars,
                   storedElementSnapshots>>

\* The FileReader of lines 832-847 settled: the download of the video file
\* is requested (line 851), or the catch of line 857 logs the error and the
\* export goes on.
ExportReaderSettled(e) ==
    /\ ExportSuspended(e, "readBlob")
    /\ \E read \in BOOLEAN :
         SetExport(e,
            IF read
            THEN [exportCalls[e] EXCEPT
                    !.pc = "videoDownload",
                    !.downloadRequested = Some(exportCalls[e].videoFileName)]
            ELSE RequestJsonDownload(
                    [exportCalls[e] EXCEPT !.videoFile = "failed"]))
    /\ UNCHANGED <<netVars, now, storedInteractionLogs, intVars, mergeVars,
                   vidVars, playVars, docVars,
                   storedElementSnapshots>>

\* chrome.downloads.download of the video file settled (lines 851-863).
ExportVideoDownloadSettled(e) ==
    /\ ExportSuspended(e, "videoDownload")
    /\ \E downloaded \in BOOLEAN :
         SetExport(e, RequestJsonDownload(
            IF downloaded
            THEN [exportCalls[e] EXCEPT !.videoFile = "saved",
                                        !.saved = @ \cup {"video"}]
            ELSE [exportCalls[e] EXCEPT !.videoFile = "failed"]))
    /\ UNCHANGED <<netVars, now, storedInteractionLogs, intVars, mergeVars,
                   vidVars, playVars, docVars,
                   storedElementSnapshots>>

\* chrome.downloads.download of the JSON file settled (lines 897-909).
ExportJsonDownloadSettled(e) ==
    /\ ExportSuspended(e, "jsonDownload")
    /\ \E downloaded \in BOOLEAN :
         SetExport(e,
            IF downloaded
            THEN GenerateHtml([exportCalls[e] EXCEPT
                                 !.saved = @ \cup {"json"}])
            ELSE ExportThrown(exportCalls[e]))
    /\ UNCHANGED <<netVars, now, storedInteractionLogs, intVars, mergeVars,
                   vidVars, playVars, docVars,
                   storedElementSnapshots>>

\* The FileReader of generateVideoTimelineHTML settled (lines 1891-1897):
\* videoSrc is the data URL, or null after an error of the reader.
ExportHtmlReaderSettled(e) ==
    /\ ExportSuspended(e, "htmlReader")
    /\ \E read \in BOOLEAN :
         LET call == exportCalls[e]
             videoSrc == IF read THEN [dataUrl |-> call.videoBlob] ELSE Null
         IN  SetExport(e,
                [call EXCEPT
                   !.pc = "htmlDownload",
                   !.embedding = IF read THEN "inline" ELSE "failed",
                   !.html = VideoTimelineHTML(videoSrc, call.videoFileName),
                   !.captureData = ExportDataAt(call)])
    /\ UNCHANGED <<netVars, now, storedInteractionLogs, intVars, mergeVars,
                   vidVars, playVars, docVars,
                   storedElementSnapshots>>

\* chrome.downloads.download of the page settled (lines 916-925).
ExportHtmlDownloadSettled(e) ==
    /\ ExportSuspended(e, "htmlDownload")
    /\ \E downloaded \in BOOLEAN :
         SetExport(e,
            IF downloaded
            THEN [exportCalls[e] EXCEPT !.pc = "done", !.result = "done",
                                        !.saved = @ \cup {"html"}]
            ELSE ExportThrown(exportCalls[e]))
    /\ UNCHANGED <<netVars, now, storedInteractionLogs, intVars, mergeVars,
                   vidVars, playVars, docVars,
                   storedElementSnapshots>>

\* The worker's state of lines 11-20 with the network recording of a tab
\* on or off and one request logged; nothing else has happened yet.
WorkerWith(recording) ==
    /\ isRecording = recording
    /\ networkLogs = RecordedLogs
    /\ attachedTabs = IF recording THEN Tabs ELSE {}
    /\ dbgAttached = attachedTabs
    /\ closedTabs = {}
    /\ startPc = [t \in Tabs |-> "idle"]
    /\ stopPc = [t \in Tabs |-> "idle"]
    /\ respTasks = <<>>
    /\ unhandled = FALSE
    /\ respSeen = [i \in Indices(networkLogs) |-> FALSE]
    /\ dupTerminal = FALSE
    /\ nEvents = 0
    /\ now = 0
    /\ InitInteraction
    /\ InitMerge
    /\ currentRecordingTabId = Null
    /\ videoStartTime = Null
    /\ videoCalls = <<>>
    /\ storedIsVideoRecording = FALSE
    /\ offscreenDocument = FALSE
    /\ mediaRecorder = Null
    /\ InitPlayer
    /\ InitDocuments
    /\ exportCalls = <<>>

\* What the stores may hold when the worker starts: snapshots or none, and
\* in the video store nothing or the recording of an earlier session (the
\* stores outlive the worker).
StoredSnapshots == {Undefined, Some(<<[elements |-> <<>>, timestamp |-> 0]>>)}
EarlierRecording == 0
StoredVideos ==
    {Null} \cup {VideoRecord(EarlierRecording, size) : size \in BlobSizes}

\* A recording of more than 500 MB (line 818) in the video store, or a
\* small one.
VeryLargeBlobSizes == {1, veryLargeVideo + 1}

\* An export while the network recording is on, with such a recording in
\* the video store.
InitLargeExport ==
    /\ WorkerWith(TRUE)
    /\ storedInteractionLogs = Undefined
    /\ storedElementSnapshots \in StoredSnapshots
    /\ videoStored \in {VideoRecord(EarlierRecording, size) :
                            size \in VeryLargeBlobSizes}

\* An export while the network recording is on and interactions are logged.
InitExport ==
    /\ WorkerWith(TRUE)
    /\ storedInteractionLogs = Undefined
    /\ storedElementSnapshots \in StoredSnapshots
    /\ videoStored \in StoredVideos

ExportStep(e) ==
    \/ ExportStorageGetSettled(e)
    \/ ExportGetVideoBlobSettled(e)
    \/ ExportReaderSettled(e)
    \/ ExportVideoDownloadSettled(e)
    \/ ExportJsonDownloadSettled(e)
    \/ ExportHtmlReaderSettled(e)
    \/ ExportHtmlDownloadSettled(e)

NextExport ==
    \/ \E t \in Tabs, mode \in ExportModes : ExportAllLogsCalled(t, mode)
    \/ \E e \in 1..MaxExports : ExportStep(e)
    \/ \E t \in Tabs, params \in RequestParams : RequestWillBeSent(t, params)
    \/ LogInteraction("click")
    \/ \E h \in 1..MaxMessages : StorageGetResolved(h)
    \/ \E h \in 1..MaxMessages : StorageSetResolved(h)

SpecExport == InitExport /\ [][NextExport]_vars

SpecLargeExport == InitLargeExport /\ [][NextExport]_vars

\* Video recordings, exports in video mode and clear-all, with the network
\* recording off, the recording of an earlier session in the video store
\* and a platform that reports no tab as busy.
InitVideoExport ==
    /\ WorkerWith(FALSE)
    /\ storedInteractionLogs = Undefined
    /\ storedElementSnapshots = Undefined
    /\ videoStored = VideoRecord(EarlierRecording, 1)

NextVideoExport ==
    \/ \E t \in Tabs : \/ StartVideoCapture(t)
                       \/ StopVideoCapture(t)
                       \/ ExportAllLogsCalled(t, "video")
    \/ \E e \in 1..MaxExports : ExportStep(e)
    \/ ClearAllLogs
    \/ \E c \in 1..MaxCommands : \/ StopSignalSettled(c)
                                 \/ StopWaitElapsed(c)
                                 \/ StorageRemoveSettled(c)
                                 \/ StopCloseDocument(c)
                                 \/ StopCatchClose(c)
                                 \/ CooldownElapsed(c)
                                 \/ TabsGetSettled(c)
                                 \/ StreamGranted(c)
                                 \/ StreamError(c)
                                 \/ ContextsSettled(c)
                                 \/ CreateDocumentSettled(c)
                                 \/ DocumentReadyElapsed(c)
                                 \/ StartSignalRejected(c)
                                 \/ BackoffElapsed(c)
                                 \/ HelperStartRecording(c)
                                 \/ StorageSetSettled(c)

SpecVideoExport == InitVideoExport /\ [][NextVideoExport]_vars

(***************************************************************************)
(* Properties of the request correlator                                    *)
(***************************************************************************)
HasResponse(e) == e.response # Undefined
IdIsUnique(logs, i) ==
    \A j \in Indices(logs) : logs[j].requestId = logs[i].requestId => j = i
MaxOf(S) == CHOOSE m \in S : \A n \in S : n <= m
\* The fields an entry gets when it is created.
SameEntry(a, b) ==
    /\ a.type = b.type
    /\ a.timestamp = b.timestamp
    /\ a.requestId = b.requestId
    /\ a.url = b.url
    /\ a.tabId = b.tabId
EntriesKept ==
    /\ Len(networkLogs') >= Len(networkLogs)
    /\ \A i \in Indices(networkLogs) :
          SameEntry(networkLogs'[i], networkLogs[i])

\* C1 as stated: every entry of the log has `response` set if and only if a
\* response event carrying its requestId was delivered, while the tab was
\* attached, after the entry was created; every sent event has its entry.
C1_ResponseIffDelivered ==
    /\ Len(respSeen) = Len(networkLogs)
    /\ \A i \in Indices(networkLogs) :
          HasResponse(networkLogs[i]) <=> respSeen[i]

\* C1 amended: the same for the entries whose requestId no other entry of the
\* log shares; an entry that got only a sent event is in the log, pending.
C1_ResponseIffDeliveredUniqueId ==
    /\ Len(respSeen) = Len(networkLogs)
    /\ \A i \in Indices(networkLogs) :
          IdIsUnique(networkLogs, i) =>
              (HasResponse(networkLogs[i]) <=> respSeen[i])

\* C1 witness: one entry with a unique id got its response, another with a
\* unique id got only the sent event and is pending.
C1_Witness ==
    /\ Len(networkLogs) = 2
    /\ Len(respSeen) = 2
    /\ networkLogs[1].requestId # networkLogs[2].requestId
    /\ \E i, j \in Indices(networkLogs) :
          /\ HasResponse(networkLogs[i]) /\ respSeen[i]
          /\ ~HasResponse(networkLogs[j]) /\ ~respSeen[j]

\* C2: no entry of the log ever has both loadingFinished and loadingFailed
\* set.
C2_AtMostOneTerminal ==
    \A i \in Indices(networkLogs) :
        ~(/\ networkLogs[i].loadingFinished # Undefined
          /\ networkLogs[i].loadingFailed # Undefined)

C4_ResponseToLatestUnresolved ==
    [][\A t \in Tabs, params \in ResponseParams :
          (ResponseReceived(t, params) /\ t \in attachedTabs) =>
              LET unresolved == {i \in Indices(networkLogs) :
                      /\ networkLogs[i].requestId = params.requestId
                      /\ ~HasResponse(networkLogs[i])}
              IN  unresolved # {} =>
                    /\ Len(networkLogs') = Len(networkLogs)
                    /\ HasResponse(networkLogs'[MaxOf(unresolved)])
                    /\ \A i \in Indices(networkLogs) \ {MaxOf(unresolved)} :
                          networkLogs'[i].response = networkLogs[i].response
      ]_vars

\* C5: a loadingFinished (loadingFailed) event for an entry that already has
\* loadingFinished (loadingFailed) leaves the number of entries unchanged and
\* replaces that sub-record by the data of this delivery; nothing else in the
\* log changes.
C5_DuplicateTerminalOverwrites ==
    [][/\ \A t \in Tabs, params \in FinishedParams :
            LET i == FindIndex(networkLogs, params.requestId)
            IN  (/\ LoadingFinished(t, params)
                 /\ t \in attachedTabs
                 /\ i # 0
                 /\ networkLogs[i].loadingFinished # Undefined) =>
                    networkLogs' =
                        [networkLogs EXCEPT ![i].loadingFinished =
                            [timestamp |-> now,
                             encodedDataLength |-> params.encodedDataLength]]
       /\ \A t \in Tabs, params \in FailedParams :
            LET i == FindIndex(networkLogs, params.requestId)
            IN  (/\ LoadingFailed(t, params)
                 /\ t \in attachedTabs
                 /\ i # 0
                 /\ networkLogs[i].loadingFailed # Undefined) =>
                    networkLogs' =
                        [networkLogs EXCEPT ![i].loadingFailed =
                            [timestamp |-> now,
                             errorText |-> params.errorText,
                             canceled |-> params.canceled]]
      ]_vars

\* C5 witness: a terminal event was delivered a second time and the entry
\* holds a terminal record.
C5_Witness ==
    /\ dupTerminal
    /\ Len(networkLogs) = 1
    /\ networkLogs[1].loadingFinished # Undefined
    /\ networkLogs[1].loadingFinished.encodedDataLength = 200

C7_BodyFetchFailureHarmless ==
    [][\A k \in Indices(respTasks) :
          (BodyFetchRejected(k) /\ ~unhandled) =>
              /\ ~unhandled'
              /\ ~EntryMissing(networkLogs', respTasks[k])
              /\ LET e == networkLogs'[respTasks[k].requestIndex]
                 IN  /\ e.requestId = respTasks[k].params.requestId
                     /\ HasResponse(e)
                     /\ e.response.body = Undefined]_vars

(***************************************************************************)
(* Properties of the interaction log and of the merge                      *)
(***************************************************************************)
\* C8: once every logInteraction message received so far was answered with
\* success, the persisted interaction log (empty before the first message)
\* has one entry per message.
C8_NoAppendLost ==
    (/\ handlers # <<>>
     /\ \A h \in Indices(handlers) :
           /\ handlers[h].pc = "done"
           /\ handlers[h].reply = [success |-> TRUE])
    => Len(StoredOrEmpty(storedInteractionLogs)) = Len(handlers)

MergeDone == mergePc \in {"logs", "video"}
PositionIn(s, e) == CHOOSE i \in Indices(s) : s[i] = e

\* C9: the merged sequence is a permutation of the concatenation network,
\* interaction, snapshot of the tagged records, is non-decreasing in
\* timestamp, and keeps records of equal timestamp in the order of the
\* concatenation.
C9_MergeSortedStable ==
    MergeDone =>
        LET concat == CollectEvents(captureData)
        IN  /\ Len(allEvents) = Len(concat)
            /\ {allEvents[i] : i \in Indices(allEvents)}
                 = {concat[i] : i \in Indices(concat)}
            /\ \A i, j \in Indices(allEvents) :
                  i < j =>
                    /\ allEvents[i].timestamp <= allEvents[j].timestamp
                    /\ (allEvents[i].timestamp = allEvents[j].timestamp =>
                          PositionIn(concat, allEvents[i])
                            < PositionIn(concat, allEvents[j]))

\* C9 witness: a merge of a network log that is not in timestamp order with
\* an interaction and a snapshot of the same timestamp.
C9_Witness ==
    /\ MergeDone
    /\ Len(captureData.networkLogs) = 2
    /\ captureData.networkLogs[1].timestamp
         > captureData.networkLogs[2].timestamp
    /\ \E i \in Indices(captureData.interactionLogs),
          j \in Indices(captureData.elementSnapshots) :
          captureData.interactionLogs[i].timestamp
            = captureData.elementSnapshots[j].timestamp

\* C10: for a non-empty merged set endTime >= startTime, the relative time of
\* every event and of every rendered record lies in 0..duration, and the
\* earliest event is at relative time 0.
C10_RelativeTimeInRange ==
    (MergeDone /\ allEvents # <<>>) =>
        /\ endTime >= startTime
        /\ duration = endTime - startTime
        /\ \A i \in Indices(allEvents) :
              /\ RelativeTime(allEvents[i], startTime) >= 0
              /\ RelativeTime(allEvents[i], startTime) <= duration
        /\ Len(tracks) = Len(allEvents)
        /\ \A i \in Indices(tracks) :
              tracks[i].relativeTime >= 0 /\ tracks[i].relativeTime <= duration
        /\ RelativeTime(allEvents[1], startTime) = 0
        /\ \A i \in Indices(allEvents) :
              allEvents[1].timestamp <= allEvents[i].timestamp

\* C10 witness: the network event is later than the interaction event; the
\* interaction is at relative time 0 and the network event at the duration,
\* which is positive.
C10_Witness ==
    /\ mergePc = "logs"
    /\ Len(captureData.networkLogs) = 1
    /\ Len(captureData.interactionLogs) = 1
    /\ captureData.elementSnapshots = <<>>
    /\ captureData.networkLogs[1].timestamp
         > captureData.interactionLogs[1].timestamp
    /\ startTime = captureData.interactionLogs[1].timestamp
    /\ tracks[2].relativeTime = 0
    /\ tracks[1].relativeTime = duration
    /\ duration > 0

\* C11: the aggregator has startTime = min(timestamp), endTime =
\* max(timestamp), duration = endTime - startTime; when there is no event or
\* all timestamps are equal, duration is 0 and the playback position is 0%;
\* the playback position is never the result of a division by zero.
C11_DurationAndPosition ==
    MergeDone =>
        LET stamps == {allEvents[i].timestamp : i \in Indices(allEvents)}
        IN  /\ duration = endTime - startTime
            /\ stamps # {} =>
                  /\ startTime \in stamps /\ endTime \in stamps
                  /\ \A t \in stamps : startTime <= t /\ t <= endTime
            /\ Cardinality(stamps) <= 1 =>
                  duration = 0 /\ progress = Some(0)
            /\ progress # NaN

(***************************************************************************)
(* Properties of the video coordinator                                     *)
(***************************************************************************)
StartCalls == {c \in Indices(videoCalls) : videoCalls[c].op = "start"}
StopCalls == {c \in Indices(videoCalls) : videoCalls[c].op = "stop"}

\* In this step call c asks the browser for a capture handle (line 195).
DidRequest(c) == videoCalls'[c].requests > videoCalls[c].requests

\* In this step call c returns to the message listener.
DidReturn(c) == videoCalls[c].pc # "done" /\ videoCalls'[c].pc = "done"

\* C12: when a start-video command asks for its capture handle, every earlier
\* start-video command for the same tab has returned and the recording it
\* started is no longer running: two recordings of a tab are never under
\* way at once.
C12_SecondStartDrainsFirst ==
    [][\A c \in StartCalls :
          DidRequest(c) =>
            \A d \in {e \in StartCalls : e < c} :
               videoCalls[d].tabId = videoCalls[c].tabId =>
                 /\ videoCalls[d].pc = "done"
                 /\ mediaRecorder # Null => mediaRecorder.by # d]_vars

\* C13: a start-video command for a tab that is being recorded asks for
\* the capture handle only after the stop message was sent, the cleanup was
\* done and a wait of at least 1 s was over; it never fails with an
\* 'already recording' error, and once the handle is granted nothing but
\* the handshake with the offscreen document can make it fail.
C13_OverlapStopsCleansWaits ==
    [][\A c \in StartCalls :
          videoCalls[c].recordingAtCall =>
            /\ DidRequest(c) =>
                 /\ videoCalls[c].stopSent
                 /\ videoCalls[c].cleaned
                 /\ videoCalls[c].cooldown >= 1000
            /\ videoCalls'[c].error # "already recording"
            /\ (videoCalls'[c].result = "failure"
                  /\ videoCalls'[c].streamId # Undefined)
                 => videoCalls'[c].error \in {"helper", "document"}]_vars

\* C14: when a start-video command returns a failure, the coordinator is
\* idle: currentRecordingTabId and videoStartTime are null.
C14_FailedStartLeavesIdle ==
    [][\A c \in StartCalls :
          (DidReturn(c) /\ videoCalls'[c].result = "failure") =>
             /\ currentRecordingTabId' = Null
             /\ videoStartTime' = Null]_vars

\* C15: a start-video command reports success, and isVideoRecording is
\* stored, only after a capture handle was granted and the offscreen
\* document answered that its recording started.
C15_SuccessOnlyAfterAck ==
    \A c \in StartCalls :
       videoCalls[c].result = "success" =>
          /\ videoCalls[c].streamId # Undefined
          /\ videoCalls[c].acked

\* C16: every stop-video command returns (its wait for the offscreen
\* document is bounded), also when the offscreen document never answers the
\* stop message; the return is the step that leaves the coordinator idle.
C16_StopVideoCompletes ==
    \A c \in 1..MaxCommands :
       (c \in StopCalls) ~>
          (c \in StopCalls /\ videoCalls[c].pc = "done")

\* C17: a start-video command asks for the capture handle at most 3 times;
\* a request after the first follows a busy error, a cleanup and a wait
\* longer than the wait before the request before; any other error ends the
\* command at once, and so does the third busy error, with a failure.
C17_HandleRetriesBounded ==
    [][\A c \in StartCalls :
          /\ videoCalls'[c].requests <= 3
          /\ (DidRequest(c) /\ videoCalls[c].requests >= 1) =>
               /\ videoCalls[c].retryCount = videoCalls[c].requests
               /\ videoCalls[c].stopSent /\ videoCalls[c].cleaned
               /\ LET waits == videoCalls'[c].retryWaits
                  IN  /\ Len(waits) = videoCalls[c].requests
                      /\ \A i \in Indices(waits) :
                            i > 1 => waits[i] > waits[i - 1]
          /\ videoCalls'[c].error \in {"busy", "capture"} =>
               /\ videoCalls'[c].result = "failure"
               /\ videoCalls'[c].pc = "done"
          /\ videoCalls'[c].error = "busy" => videoCalls'[c].requests = 3]_vars

NoRecordingActiveBut(c) ==
    /\ ~isRecording
    /\ attachedTabs = {}
    /\ currentRecordingTabId = Null
    /\ videoStartTime = Null
    /\ ~offscreenDocument
    /\ mediaRecorder = Null
    /\ \A d \in Indices(videoCalls) \ {c} : videoCalls[d].pc = "done"
    /\ \A t \in Tabs : startPc[t] = "idle" /\ stopPc[t] = "idle"

\* C19: a stop-logging or stop-video command given while nothing records
\* changes neither isRecording, attachedTabs, the network log, the
\* coordinator's state, the offscreen document nor the stored video, and a
\* stop-video command never answers with a failure.
C19_StopWhenIdleIsNoOp ==
    [][/\ \A t \in Tabs :
            (NoRecordingActive /\ StopRecordingBegin(t)) =>
               UNCHANGED <<isRecording, attachedTabs, networkLogs, stopPc,
                           currentRecordingTabId, videoStartTime,
                           offscreenDocument, mediaRecorder, videoStored>>
       /\ (NoRecordingActive /\ Len(videoCalls') > Len(videoCalls)
             /\ Last(videoCalls').op = "stop") =>
               UNCHANGED <<isRecording, attachedTabs, networkLogs,
                           currentRecordingTabId, videoStartTime,
                           offscreenDocument, mediaRecorder, videoStored>>
       /\ \A c \in StopCalls :
            /\ videoCalls'[c].result # "failure"
            /\ (NoRecordingActiveBut(c) /\ videoCalls'[c] # videoCalls[c]) =>
                 UNCHANGED <<isRecording, attachedTabs, networkLogs,
                             currentRecordingTabId, videoStartTime,
                             offscreenDocument, mediaRecorder,
                             videoStored>>]_vars

\* C19 witness: a stop-video command given while nothing recorded has
\* answered success; the network log still has its entry.
C19_Witness ==
    \E c \in StopCalls :
       /\ videoCalls[c].idleAtCall
       /\ videoCalls[c].pc = "done"
       /\ videoCalls[c].result = "success"
       /\ networkLogs # <<>>
       /\ NoRecordingActive

\* C20: a start-video command for a tab whose URL scheme is neither http
\* nor https returns a failure at once, without a request for a capture
\* handle, an offscreen document or a start message.
C20_RestrictedSchemeRefused ==
    \A c \in StartCalls :
       videoCalls[c].scheme \in UrlSchemes \ {"http:", "https:"} =>
          /\ videoCalls[c].pc = "done"
          /\ videoCalls[c].result = "failure"
          /\ videoCalls[c].requests = 0
          /\ videoCalls[c].documents = 0
          /\ videoCalls[c].sends = 0

\* C20 witness: a start for a chrome: page was refused.
C20_Witness ==
    \E c \in StartCalls :
       /\ videoCalls[c].scheme = "chrome:"
       /\ videoCalls[c].result = "failure"
       /\ videoCalls[c].error = "scheme"

(***************************************************************************)
(* Properties of the video store and the export                            *)
(***************************************************************************)
ExportIndices == Indices(exportCalls)

\* The export wrote its JSON document with the video of the store in it.
ReturnedVideo(e) ==
    /\ exportCalls[e].json # Null
    /\ exportCalls[e].json.videoData.hasVideo

\* C21: an export in video mode that is asked for after a recording began
\* does not return the video of an earlier recording: the video in its
\* JSON document is of the latest recording that had begun, or there is
\* none.
C21_NewRecordingSupersedes ==
    \A e \in ExportIndices :
       ReturnedVideo(e) =>
          \A c \in exportCalls[e].startedBefore :
             exportCalls[e].videoBlob.recording >= c

\* This step completes an export: the third download was saved.
ExportCompletes ==
    \E e \in ExportIndices :
       exportCalls[e].result = "pending" /\ exportCalls'[e].result = "done"

\* C22: after the step that completes an export, and after clear-all, the
\* video store holds nothing under 'current-video'.
C22_VideoDeletedAfterExportAndClear ==
    [][(ExportCompletes \/ ClearAllLogs) => videoStored' = Null]_vars

\* The exports in video mode that have generated their page.
VideoPages ==
    {e \in ExportIndices :
        exportCalls[e].mode = "video" /\ exportCalls[e].html # Null}

\* The page has a video element whose source is a data URL / a file name.
EmbedsInline(html) == html.video # Null /\ "dataUrl" \in DOMAIN html.video
RefersToFile(html) == html.video # Null /\ "file" \in DOMAIN html.video

\* The page shows the placeholder and neither a video element nor controls.
PlaceholderOnly(html) ==
    html.placeholder /\ html.video = Null /\ ~html.controls

\* C23 as stated: the page embeds the video inline exactly if a video is
\* given and is smaller than 10 MiB; a video of that size or more is
\* referred to by its file name; with no video the page has the
\* placeholder and neither a video element nor controls.
C23_InlineIffBelowCutoff ==
    \A e \in VideoPages :
       LET call == exportCalls[e]
       IN  /\ EmbedsInline(call.html) <=>
                 (call.videoBlob # Null
                    /\ call.videoBlob.size < maxDataUrlSize)
           /\ (call.videoBlob # Null
                 /\ call.videoBlob.size >= maxDataUrlSize) =>
                 call.html.video =
                    FileReference(call.videoBlob, call.videoFileName)
           /\ call.videoBlob = Null => PlaceholderOnly(call.html)

\* C23, amended: the page embeds the video inline exactly if a video is
\* given, is smaller than 10 MiB and was read into a data URL; a video of
\* 10 MiB or more is referred to by its file name; with no video, and
\* with a smaller video that could not be read, the page has the
\* placeholder and neither a video element nor controls.
C23_InlineIffBelowCutoffAndRead ==
    \A e \in VideoPages :
       LET call == exportCalls[e]
       IN  /\ EmbedsInline(call.html) <=>
                 (call.videoBlob # Null
                    /\ call.videoBlob.size < maxDataUrlSize
                    /\ call.embedding # "failed")
           /\ (call.videoBlob # Null
                 /\ call.videoBlob.size >= maxDataUrlSize) =>
                 /\ RefersToFile(call.html)
                 /\ call.html.video =
                       FileReference(call.videoBlob, call.videoFileName)
           /\ (call.videoBlob = Null \/ call.embedding = "failed") =>
                 PlaceholderOnly(call.html)

\* A page with the video embedded, of an export that saved it.
C23_Witness ==
    \E e \in VideoPages :
       /\ EmbedsInline(exportCalls[e].html)
       /\ exportCalls[e].html.controls
       /\ exportCalls[e].result = "done"

\* The exports in video mode that found no record in the video store.
ExportsWithoutVideo ==
    {e \in ExportIndices :
        exportCalls[e].mode = "video" /\ exportCalls[e].retrieval = "absent"}

\* C24: an export in video mode that finds no video in the store does not
\* throw for it (only a refused download ends it with an error); its JSON
\* document has videoData.hasVideo = false, its page has the placeholder
\* and no video element, and when it completes both files were saved.
C24_ExportWithoutVideo ==
    \A e \in ExportsWithoutVideo :
       LET call == exportCalls[e]
       IN  /\ call.json # Null
           /\ call.json.videoData = [hasVideo |-> FALSE]
           /\ call.html # Null => PlaceholderOnly(call.html)
           /\ call.result = "error" =>
                 call.thrownAt \in {"jsonDownload", "htmlDownload"}
           /\ call.result = "done" =>
                 /\ {"json", "html"} \subseteq call.saved
                 /\ call.html # Null

\* An export in video mode that found no video and saved both documents.
C24_Witness ==
    \E e \in ExportsWithoutVideo :
       /\ exportCalls[e].result = "done"
       /\ {"json", "html"} \subseteq exportCalls[e].saved

\* The exports in video mode whose retrieval of the video failed, or whose
\* conversion or saving of the video as a file failed.
ExportsWithFailedVideo ==
    {e \in ExportIndices :
        /\ exportCalls[e].mode = "video"
        /\ \/ exportCalls[e].retrieval = "failed"
           \/ exportCalls[e].videoFile = "failed"}

\* C25: when the retrieval of the video, or its conversion or saving as a
\* file, has failed, the export goes on: the failure does not end it, and
\* its JSON document is written with videoData.hasVideo = false.
C25_VideoFailureTolerated ==
    \A e \in ExportsWithFailedVideo :
       LET call == exportCalls[e]
       IN  /\ call.thrownAt # "getVideoBlob"
           /\ call.json # Null
           /\ call.json.videoData.hasVideo = FALSE

\* C26: in the JSON document of every export the three counts of summary
\* are the lengths of the three arrays of the same document.
C26_SummaryMatchesArrays ==
    \A e \in ExportIndices :
       LET json == exportCalls[e].json
       IN  json # Null =>
              /\ json.summary.totalNetworkRequests = Len(json.networkLogs)
              /\ json.summary.totalInteractions = Len(json.interactionLogs)
              /\ json.summary.totalElementSnapshots =
                    Len(json.elementSnapshots)

\* A JSON document written after a request arrived during the export, with
\* an interaction logged after the export had read the interaction log.
C26_Witness ==
    \E e \in ExportIndices :
       LET json == exportCalls[e].json
       IN  /\ json # Null
           /\ Len(json.networkLogs) > exportCalls[e].logsAtCall
           /\ Len(StoredOrEmpty(storedInteractionLogs))
                 > Len(json.interactionLogs)
           /\ Len(json.interactionLogs) > 0


(***************************************************************************)
(* Properties of the players of the exported pages                         *)
(***************************************************************************)
\* C27: in the logs-only player the clock stays within 0..duration; a frame
\* of the running player moves it on by the time gone by since the frame
\* before, times the speed chosen, and a frame that reaches the duration
\* leaves the clock at the duration and the player paused.
C27_ClockWithinDuration ==
    [][mergePc' = "logs" =>
         LET total == PageDuration(captureData')
         IN  /\ 0 <= currentTime' /\ currentTime' <= total
             /\ StartPlayback => currentTime' = currentTime
             /\ Animate =>
                   LET deltaTime == performanceNow - lastFrameTime.value
                       advanced == currentTime + deltaTime * playbackSpeed
                   IN  /\ deltaTime >= 0
                       /\ currentTime' =
                             IF advanced < total THEN advanced ELSE total
                       /\ isPlaying' = (advanced < total)]_vars

\* C27 witness: the player runs at double speed and its last frame, a
\* millisecond after the one before, left the clock before the duration.
C27_Witness ==
    /\ mergePc = "logs"
    /\ isPlaying
    /\ playbackSpeed = 2
    /\ lastFrameTime = Some(performanceNow)
    /\ performanceNow = 1
    /\ currentTime = 2
    /\ currentTime < PageDuration(captureData)

\* The event the indicator is to show at a clock reading: the last event of
\* the sorted sequence that is not later than it.
EventAt(events, start, time) ==
    LET qualifying ==
            {i \in Indices(events) : events[i].timestamp - start <= time}
    IN  IF qualifying = {} THEN Null
        ELSE Some(events[CHOOSE i \in qualifying :
                             \A j \in qualifying : j <= i])

\* C28: after every frame and after a reset of the logs-only player, the
\* card of the current event shows the last event whose relative time is at
\* most the clock, and is hidden when there is none.
C28_CurrentEventFollowsClock ==
    [][(StartPlayback \/ Animate \/ ResetPlayback) =>
          currentEventCard' =
              EventAt(PageEvents(captureData), PageStartTime(captureData),
                      currentTime')]_vars

\* The list items of the video page that belong to the last event not later
\* than the current timestamp.
ItemsOfLastEvent(items, start, currentTimeMs) ==
    LET qualifying ==
            {i \in Indices(items) : items[i].timestamp <= start + currentTimeMs}
    IN  {i \in qualifying :
            \A j \in qualifying : items[j].timestamp <= items[i].timestamp}

\* C29: on every timing update of the video page at media time t, the
\* highlighted list items are those of the last event whose timestamp is at
\* most the start timestamp plus t: one is highlighted when there is such
\* an event, and no other item is.
C29_HighlightFollowsVideo ==
    [][TimeUpdate =>
          LET last == ItemsOfLastEvent(tracks, startTime, currentTime' * 1000)
          IN  /\ activeItems' \subseteq last
              /\ (last # {}) => (activeItems' # {})]_vars

\* C30: the details panel opened by a click on a pill shows the record the
\* pill was rendered for, whatever the order of the timestamps of the three
\* logs.
C30_PillOpensItsEvent ==
    (mergePc = "logs" /\ detailsPanel # Null) =>
        detailsPanel.event = CollectEvents(captureData)[detailsPanel.pill]

\* The clock a scrubber is bound to, and its duration, in the clock's unit.
BoundDuration ==
    IF mergePc = "video" THEN videoDuration ELSE PageDuration(captureData)

\* C31: a click on the scrubber of either page at the proportion p of its
\* width sets the clock the scrubber is bound to -- the video's current time
\* on the video page, the player's clock on the logs-only page -- to p times
\* the duration.
C31_ScrubberSeeks ==
    [][lastScrub' # lastScrub =>
          currentTime' * ScrubSteps = lastScrub'.pos * BoundDuration]_vars

(***************************************************************************)
(* Properties of the content script                                        *)
(***************************************************************************)
\* C32: once the content script has noticed that the worker is gone -- by
\* the probe of the context, by an error thrown on sending, or by an error in
\* the reply -- it is not recording and its handlers are removed, it sends
\* no message until the recording of interactions is started again, and no
\* handler lets an error escape.
C32_SilentAfterWorkerLoss ==
    [][/\ detectedBy' # Null =>
             ~isRecordingInteractions' /\ ~listening'
       /\ (detectedBy # Null /\ detectedBy' # Null) => emitted' = emitted
       /\ ~csThrown']_vars

\* C32 witness: one message was sent and its reply carried an error while
\* the context was valid; the script has removed its handlers.
C32_Witness ==
    /\ detectedBy = Some("reply")
    /\ contextAlive
    /\ pendingReplies = 0
    /\ Len(emitted) = 1
    /\ ~listening

\* The scroll messages sent, in their order.
ScrollsSent == SelectSeq(emitted, LAMBDA m : m.type = "scroll")

\* C33: two scroll messages sent one after the other are at least 100 ms
\* apart, and a scroll event handled while recording, 100 ms or more after
\* the last scroll message sent, is sent.
C33_ScrollThrottled ==
    /\ \A i \in 1..(Len(ScrollsSent) - 1) :
          ScrollsSent[i + 1].at - ScrollsSent[i].at >= 100
    /\ (/\ lastScrollEvent # Null
        /\ lastScrollEvent.alive
        /\ lastScrollEvent.before # Null
        /\ lastScrollEvent.at - lastScrollEvent.before.value >= 100)
       => lastScrollEvent.sent

\* C33 witness: a scroll event 50 ms after a scroll message was dropped, and
\* the one 100 ms after it was sent.
C33_Witness ==
    /\ Len(ScrollsSent) = 2
    /\ ScrollsSent[2].at - ScrollsSent[1].at = 100
    /\ lastScrollEvent # Null
    /\ lastScrollEvent.sent
    /\ lastScrollEvent.at = ScrollsSent[2].at

(***************************************************************************)
(* Properties of the offscreen script                                      *)
(***************************************************************************)
\* C34: the promise of the offscreen script's stopRecording always settles:
\* when the handler of the stop event does not finish, the timeout resolves
\* it.
C34_StopRecordingSettles ==
    (helperStop.pc = "waiting") ~> (helperStop.pc = "settled")

\* C38: the stop handler of a recorder that startRecording has replaced
\* stops no tracks of the stream of the new recording, and the video it
\* sends holds no chunk of another recorder.
C38_SupersededHandlerHarmless ==
    /\ foreignStops = {}
    /\ \A m \in Indices(videoMessages) :
          \A i \in Indices(videoMessages[m].chunks) :
             videoMessages[m].chunks[i] = videoMessages[m].by

(***************************************************************************)
(* Further properties of the recording life cycle and the correlator       *)
(***************************************************************************)
\* No startRecording, stopRecording or handleNetworkResponse is suspended at
\* an await.
NoHandlerSuspended ==
    /\ \A t \in DOMAIN startPc : startPc[t] = "idle" /\ stopPc[t] = "idle"
    /\ respTasks = <<>>

\* C35: whenever no handler is suspended at an await, isRecording holds
\* exactly when some tab is in attachedTabs.
C35_RecordingIffAttached ==
    NoHandlerSuspended => (isRecording <=> attachedTabs # {})

\* C36: when the body fetch of a response for request r resolves, the handler
\* raises no error, and every log entry whose response body changes in that
\* step is an entry of request r that was in the log, at the same place, when
\* the handler looked it up; this also holds when the log was reset or
\* cleared and refilled in between.
C36_LateBodyOnlyOnOwnEntry ==
    [][\A k \in Indices(respTasks), responseBody \in ResponseBodies :
          (BodyFetchResolved(k, responseBody) /\ ~unhandled) =>
              /\ ~unhandled'
              /\ \A i \in Indices(networkLogs') :
                    (HasResponse(networkLogs'[i])
                     /\ networkLogs'[i].response # networkLogs[i].response) =>
                        networkLogs'[i].requestId =
                            respTasks[k].params.requestId]_vars

\* C37: when a start-video command for tab t returns success, the recording
\* tab in memory is t and the recording start time in memory is not null,
\* also when the capture handle was granted on a retry whose cleanup ran
\* stopVideoCapture.
C37_SuccessMeansRecording ==
    [][\A c \in StartCalls :
          (DidReturn(c) /\ videoCalls'[c].result = "success") =>
             /\ currentRecordingTabId' = Some(videoCalls[c].tabId)
             /\ videoStartTime' # Null]_vars

\* C39: the data embedded in the page of an export holds the network log
\* entries of the JSON document of the same export, and the counts of the
\* summary in that data are the lengths of its arrays, also when requests
\* were logged while the export waited for the download of the JSON file.
C39_PageEmbedsJsonLogs ==
    \A e \in ExportIndices :
       LET call == exportCalls[e]
       IN  call.captureData # Null =>
              /\ call.captureData.networkLogs = call.json.networkLogs
              /\ call.captureData.summary.totalNetworkRequests =
                    Len(call.captureData.networkLogs)
              /\ call.captureData.summary.totalInteractions =
                    Len(call.captureData.interactionLogs)
              /\ call.captureData.summary.totalElementSnapshots =
                    Len(call.captureData.elementSnapshots)

\* C40: when the JSON document of an export says hasVideo = true, its
\* videoFileName is the name that the download command was called with for
\* the video in the same export, and the page of an export in video mode
\* embeds the video inline or refers to the file of that name, whatever the
\* size of the recording (more than 500 MB included).
C40_VideoFileNameIsSavedFile ==
    \A e \in ExportIndices :
       LET call == exportCalls[e]
       IN  (call.json # Null /\ call.json.videoData.hasVideo) =>
              /\ call.downloadRequested =
                    Some(call.json.videoData.videoFileName)
              /\ (call.html # Null /\ call.mode = "video") =>
                    \/ "dataUrl" \in DOMAIN call.html.video
                    \/ call.html.video =
                          [file |-> call.json.videoData.videoFileName]

====
